---------------------------- MODULE Spec2Model ----------------------------
(***************************************************************************)
(* A model of dawn's HaloProfile (src/dawn/halo_profile.py): its attribute *)
(* dictionary, update_param, the derived parameters, the interpolator      *)
(* tables and the operations that build and query them, and of the fit     *)
(* driver's joint_likelihood (src/core/fitting_utils.py) that calls it;    *)
(* of magneticum's Profile (src/magneticum/analytic_profile.py); of        *)
(* get_halo_data and read_halo_data; and of the particle collection of     *)
(* get_profile_for_halo (src/core/sim_tools.py).                           *)
(*                                                                         *)
(* Numbers are fixed point: dimensionless parameters are held in units of  *)
(* 1e-4 (f_H = 0.76 is 7600, eps1_0 = -0.1065 is -1065, the bound -1 is    *)
(* -10000), masses in units of 1e9 Msun/h (1e13 Msun/h is 10^4), redshifts *)
(* are whole numbers.  A quantity with astropy units is a record           *)
(* [val, unit]; a plain number is the number.                              *)
(***************************************************************************)
EXTENDS Integers, Sequences, FiniteSets, TLC

VARIABLES self, last, ncalls, other, data

vars == <<self, last, ncalls, other, data>>

(***************************************************************************)
(* Bounds of the exploration.                                              *)
(***************************************************************************)
MaxCalls == 2

(***************************************************************************)
(* Helpers for the attribute dictionary (self.__dict__ is a function from  *)
(* attribute names to values; `name in self.__dict__` is name \in DOMAIN). *)
(***************************************************************************)
SetAttr(d, k, v) == [x \in (DOMAIN d) \cup {k} |-> IF x = k THEN v ELSE d[x]]

HasAttr(d, k) == k \in DOMAIN d

Msun(v) == [val |-> v, unit |-> "Msun/h"]

\* 10**v for a log10 mass v, in the model's mass unit of 1e9 Msun/h.
Pow10(v) == 10 ^ (v - 9)

\* The four interpolator mappings of a HaloProfile.
InterpAttrs == {"_rho_dm_prof_interpolator", "_Pe_prof_interpolator",
                "_rho_prof_interpolator", "_Temp_prof_interpolator"}

\* The attributes the profile functions read when a table is built.
ProfileInputs == {"omega_m", "omega_b", "alpha", "M0", "beta",
                  "eps1_0", "eps1_1", "eps2_0", "eps2_1", "HMcode_rescale_A",
                  "alpha_nt", "n_nt", "gamma", "gamma_T", "a", "irho",
                  "imass_conc", "conc_param", "lognorm_rho", "mmin", "mmax",
                  "mu_e", "mu_p"}

(***************************************************************************)
(* HaloProfile.__init__, lines 17-85: the attributes set before the        *)
(* constructor calls update_param.  mu_e, mu_p and the interpolator        *)
(* mappings are not among them.                                            *)
(***************************************************************************)
Defaults ==
    [omega_m |-> 2720, omega_b |-> 456, h |-> 7040,
     H0 |-> [val |-> 7040 * 100, unit |-> "km/s/Mpc"],
     units_rho |-> "Msun/kpc3 h2", units_Pe |-> "keV/cm3 h2", units_Temp |-> "K",
     f_H |-> 7600, alpha |-> 8471, M0 |-> Msun(39237), beta |-> 6000,
     eps1_0 |-> -1065, eps1_1 |-> -1073, eps2_0 |-> 0, eps2_1 |-> 0,
     HMcode_rescale_A |-> 10000,
     alpha_nt |-> 0, n_nt |-> 0,
     gamma |-> 11770, gamma_T |-> 20000, a |-> 0,
     irho |-> 0, imass_conc |-> 0, conc_param |-> 80000, rs |-> 5000,
     lognorm_rho |-> -20000,
     use_interp |-> FALSE, zs |-> <<0>>, mmin |-> 10^4, mmax |-> 10^7,
     verbose |-> FALSE, interp_error_tol |-> 10]


(***************************************************************************)
(* Numerical kernels.  The real powers of the concentration relations and  *)
(* of f_bnd are tabulated on the model's mass and redshift grid, rounded   *)
(* to 1e-3.                                                                *)
(***************************************************************************)
MassGrid == {10^4, 10^5, 10^6}

\* 7.85 * (M/2e12)**(-0.081) * (1+z)**(-0.71), in units of 1e-3.
Duffy08(M, z) ==
    CASE M = 10^4 /\ z = 0 -> 6891 [] M = 10^4 /\ z = 1 -> 4212
      [] M = 10^4 /\ z = 2 -> 3159
      [] M = 10^5 /\ z = 0 -> 5718 [] M = 10^5 /\ z = 1 -> 3496
      [] M = 10^5 /\ z = 2 -> 2621
      [] M = 10^6 /\ z = 0 -> 4745 [] M = 10^6 /\ z = 1 -> 2901
      [] M = 10^6 /\ z = 2 -> 2175

\* exp(1.5) * (M/(19.9e13*0.704))**(-0.04) * ((1/(1+z))/0.877)**(-0.52),
\* in units of 1e-3.
Ragagnin21(M, z) ==
    CASE M = 10^4 /\ z = 0 -> 4652 [] M = 10^4 /\ z = 1 -> 6671
      [] M = 10^4 /\ z = 2 -> 8237
      [] M = 10^5 /\ z = 0 -> 4243 [] M = 10^5 /\ z = 1 -> 6084
      [] M = 10^5 /\ z = 2 -> 7512
      [] M = 10^6 /\ z = 0 -> 3870 [] M = 10^6 /\ z = 1 -> 5549
      [] M = 10^6 /\ z = 2 -> 6851

\* (M/M0)**beta in units of 1e-3, for beta = 0.6 and the values M0 takes.
MassRatioPow(M, M0val) ==
    CASE M0val = 39237 /\ M = 10^4 -> 440
      [] M0val = 39237 /\ M = 10^5 -> 1753
      [] M0val = 39237 /\ M = 10^6 -> 6979
      [] M0val = 10^4 /\ M = 10^4 -> 1000
      [] M0val = 10^4 /\ M = 10^5 -> 3981
      [] M0val = 10^4 /\ M = 10^6 -> 15849
      [] M0val = 10^5 /\ M = 10^4 -> 251
      [] M0val = 10^5 /\ M = 10^5 -> 1000
      [] M0val = 10^5 /\ M = 10^6 -> 3981

(***************************************************************************)
(* get_f_bnd, as the fraction f_bnd(M) / (omega_b/omega_m) = y / (1 + y)   *)
(* with y = (M/M0)**beta: a rational [n, d].                               *)
(***************************************************************************)
\* (M/self.M0)**self.beta in units of 1e-3, from y = (M/self.M0)**0.6: y for
\* beta = 0.6, its reciprocal for beta = -0.6, and 1 for beta = 0.
PowSigned(beta, y) ==
    CASE beta = 6000 -> y
      [] beta = -6000 -> (10^6) \div y
      [] beta = 0 -> 1000

PowBeta(d, M) == PowSigned(d["beta"], MassRatioPow(M, d["M0"].val))

\* y/(1 + y)
Logistic(y) == [n |-> y, d |-> 1000 + y]

\* Mutant: the complement 1/(1 + y) of the logistic function.
get_f_bnd_ratio_complement(d, M) == [n |-> 1000, d |-> Logistic(PowBeta(d, M)).d]

get_f_bnd_ratio(d, M) == Logistic(PowBeta(d, M))

(***************************************************************************)
(* get_concentration(M, z).  The result is [err, c, num, den, A]: the      *)
(* value is c/1000 * num/den * A/10^4, where num/den is the factor         *)
(* 1 + eps1 + (eps2 - eps1) * f_bnd/(omega_b/omega_m) and A is the factor  *)
(* the value was multiplied by last: HMcode_rescale_A for the relations 0  *)
(* and 1, and 1 for imass_conc = 2, which returns conc_param as it is.     *)
(***************************************************************************)
Eps1(d, z) == d["eps1_0"] + d["eps1_1"] * z

Eps2(d, z) == d["eps2_0"] + d["eps2_1"] * z

ConcRaise(kind) == [err |-> kind, c |-> 0, num |-> 0, den |-> 1, A |-> 0]

\* The relation selected by imass_conc 0 or 1 (lines 453-462).
BaseRelation(d, M, z) == IF d["imass_conc"] = 0 THEN Duffy08(M, z) ELSE Ragagnin21(M, z)

\* Lines 464-465: conc_param, returned as it is.
FixedConcentration(d) ==
    [err |-> "none", c |-> d["conc_param"] \div 10, num |-> 1, den |-> 1, A |-> 10^4]

\* Lines 476-479.
ModifiedConcentration(c_M, eps1, eps2, fb, A) ==
    [err |-> "none", c |-> c_M,
     num |-> (10^4 + eps1) * fb.d + (eps2 - eps1) * fb.n,
     den |-> 10^4 * fb.d,
     A |-> A]

\* Mutant: Profile.get_concentration of magneticum, which has no domain check.
get_concentration_unchecked(d, M, z) ==
    IF d["imass_conc"] = 2 THEN FixedConcentration(d)
    ELSE ModifiedConcentration(BaseRelation(d, M, z), Eps1(d, z), Eps2(d, z),
                               get_f_bnd_ratio(d, M), d["HMcode_rescale_A"])

\* Mutant: the rescale factor enters by its magnitude.
get_concentration_abs_rescale(d, M, z) ==
    IF d["imass_conc"] = 2 THEN FixedConcentration(d)
    ELSE IF Eps1(d, z) <= -(10^4) THEN ConcRaise("ValueError")
    ELSE IF Eps2(d, z) <= -(10^4) THEN ConcRaise("ValueError")
    ELSE ModifiedConcentration(BaseRelation(d, M, z), Eps1(d, z), Eps2(d, z),
                               get_f_bnd_ratio(d, M),
                               IF d["HMcode_rescale_A"] < 0 THEN -d["HMcode_rescale_A"]
                               ELSE d["HMcode_rescale_A"])

\* Mutant: the checks as their messages word them, eps < -1.
get_concentration_strict(d, M, z) ==
    IF d["imass_conc"] = 2 THEN FixedConcentration(d)
    ELSE IF Eps1(d, z) < -(10^4) THEN ConcRaise("ValueError")
    ELSE IF Eps2(d, z) < -(10^4) THEN ConcRaise("ValueError")
    ELSE ModifiedConcentration(BaseRelation(d, M, z), Eps1(d, z), Eps2(d, z),
                               get_f_bnd_ratio(d, M), d["HMcode_rescale_A"])

get_concentration(d, M, z) ==
    IF d["imass_conc"] = 2 THEN FixedConcentration(d)
    ELSE IF Eps1(d, z) <= -(10^4) THEN ConcRaise("ValueError")
    ELSE IF Eps2(d, z) <= -(10^4) THEN ConcRaise("ValueError")
    ELSE ModifiedConcentration(BaseRelation(d, M, z), Eps1(d, z), Eps2(d, z),
                               get_f_bnd_ratio(d, M), d["HMcode_rescale_A"])


(***************************************************************************)
(* The profile evaluations a table is built from.  ProfileRaises(d, z) is  *)
(* the exception get_rho_dm_profile(m, z) followed by                      *)
(* get_Pe_profile(m, z, return_rho, return_Temp) ends with, "none" when    *)
(* both return: get_concentration is called first; get_rho_bnd then reads  *)
(* self.gamma_1 .. self.eta when irho == 2, attributes that __init__ does  *)
(* not set.                                                                *)
(***************************************************************************)
\* The attributes _get_rho_bnd_wrapper reads, by the value of irho.
WrapperReads(d) ==
    CASE d["irho"] = 0 -> {"gamma"}
      [] d["irho"] = 1 -> {"gamma", "a"}
      [] d["irho"] = 2 -> {"gamma", "gamma_1", "gamma_2", "beta_0", "beta_1", "beta_2", "eta"}
      [] OTHER -> {}

rho_bnd_wrapper_raises(d) ==
    IF d["irho"] = 2 /\ ~HasAttr(d, "gamma_1") THEN "AttributeError" ELSE "none"

FirstError(e1, e2) == IF e1 # "none" THEN e1 ELSE e2

ProfileRaises(d, z) ==
    FirstError(get_concentration(d, d["mmin"], z).err, rho_bnd_wrapper_raises(d))

\* What a table holds: the values of the profile at one redshift, a function
\* of the attributes the profile functions read at the time it is built.
Snapshot(d) == [k \in ProfileInputs |-> d[k]]

ProfileInterpolator(d, field, z) == [field |-> field, z |-> z, from |-> Snapshot(d)]

FieldOf(attr) ==
    CASE attr = "_rho_dm_prof_interpolator" -> "rho_dm"
      [] attr = "_Pe_prof_interpolator" -> "Pe"
      [] attr = "_rho_prof_interpolator" -> "rho"
      [] attr = "_Temp_prof_interpolator" -> "Temp"

\* Mutant: the mapping is created anew at every redshift of the loop.
PutKey_overwrite(m, z, v) == [k \in {z} |-> v]

\* dict[z] = value
PutKey(m, z, v) == [k \in (DOMAIN m) \cup {z} |-> IF k = z THEN v ELSE m[k]]

EmptyDict == [k \in {} |-> 0]

(***************************************************************************)
(* _init_prof_interpolator: the four mappings are replaced by empty ones,  *)
(* then filled redshift by redshift in the order of zs; an exception       *)
(* leaves what was filled so far.  Result: [d, err].                       *)
(***************************************************************************)
RECURSIVE FillFrom(_, _)
\* One redshift: the exception e of its profile evaluations, or its four tables
\* and the redshifts after it.
FillOne(d, i, z, e) ==
    IF e # "none" THEN [d |-> d, err |-> e]
    ELSE FillFrom([x \in DOMAIN d |->
                     IF x \in InterpAttrs
                     THEN PutKey(d[x], z, ProfileInterpolator(d, FieldOf(x), z))
                     ELSE d[x]], i + 1)

FillFrom(d, i) ==
    IF i > Len(d["zs"]) THEN [d |-> d, err |-> "none"]
    ELSE FillOne(d, i, d["zs"][i], ProfileRaises(d, d["zs"][i]))

\* Mutant: the mappings are not emptied before they are filled.
ClearInterpolators_keep(d) ==
    [x \in (DOMAIN d) \cup InterpAttrs |->
        IF x \in InterpAttrs /\ x \notin DOMAIN d THEN EmptyDict ELSE d[x]]

ClearInterpolators(d) ==
    [x \in (DOMAIN d) \cup InterpAttrs |-> IF x \in InterpAttrs THEN EmptyDict ELSE d[x]]

init_prof_interpolator(d) == FillFrom(ClearInterpolators(d), 1)

(***************************************************************************)
(* _update_derived_param.  Result: [d, err, built].                        *)
(***************************************************************************)
mu_e_of(d) == [n |-> 2 * 10^4, d |-> 10^4 + d["f_H"]]

mu_p_of(d) == [n |-> 4 * 10^4, d |-> 3 * 10^4 + 5 * d["f_H"]]

H0_of(d) == [val |-> d["h"] * 100, unit |-> "km/s/Mpc"]

SetDerived(d) ==
    SetAttr(SetAttr(SetAttr(d, "H0", H0_of(d)), "mu_e", mu_e_of(d)), "mu_p", mu_p_of(d))

\* What a call that ran _init_prof_interpolator reports.
Built(r) == [d |-> r.d, err |-> r.err, built |-> TRUE]

NotBuilt(d) == [d |-> d, err |-> "none", built |-> FALSE]

\* Lines 493-496, d1 the attributes with the derived parameters set.
RebuildIfEnabled(d1) ==
    IF d1["use_interp"] = TRUE THEN Built(init_prof_interpolator(d1)) ELSE NotBuilt(d1)

\* Mutant: the rebuild is not conditioned on use_interp.
update_derived_param_always(d) == Built(init_prof_interpolator(SetDerived(d)))

\* Mutant: the derived parameters are set and the rebuild is forgotten.
update_derived_param_norebuild(d) == NotBuilt(SetDerived(d))

update_derived_param(d) == RebuildIfEnabled(SetDerived(d))

(***************************************************************************)
(* update_param(names, values).  AssignFrom is the loop of lines 152-165;  *)
(* its result is [d, printed], printed the names reported as unknown.      *)
(***************************************************************************)
\* Mutant: an unknown name is set like any other.
AssignOne_create(d, name, value) ==
    IF name = "M0" THEN [d |-> SetAttr(d, "M0", Msun(value)), printed |-> <<>>]
    ELSE IF ~HasAttr(d, name) /\ name = "log10_M0"
         THEN [d |-> SetAttr(d, "M0", Msun(Pow10(value))), printed |-> <<>>]
         ELSE [d |-> SetAttr(d, name, value),
               printed |-> IF HasAttr(d, name) THEN <<>> ELSE <<name>>]

\* Mutant: the order of the tests of magneticum's Profile.update_param, where
\* log10_M0 is looked up in __dict__ before it is recognized.
AssignOne_lookup_first(d, name, value) ==
    IF ~HasAttr(d, name) THEN [d |-> d, printed |-> <<name>>]
    ELSE IF name = "log10_M0"
         THEN [d |-> SetAttr(d, name, Msun(Pow10(value))), printed |-> <<>>]
         ELSE IF name = "M0" THEN [d |-> SetAttr(d, "M0", Msun(value)), printed |-> <<>>]
         ELSE [d |-> SetAttr(d, name, value), printed |-> <<>>]

AssignOne(d, name, value) ==
    IF name = "M0" THEN [d |-> SetAttr(d, "M0", Msun(value)), printed |-> <<>>]
    ELSE IF ~HasAttr(d, name)
         THEN IF name = "log10_M0"
              THEN [d |-> SetAttr(d, "M0", Msun(Pow10(value))), printed |-> <<>>]
              ELSE [d |-> d, printed |-> <<name>>]
         ELSE [d |-> SetAttr(d, name, value), printed |-> <<>>]

\* Mutant: the loop ends at the first unknown name, as the `return` of
\* magneticum's Profile.update_param does.
RECURSIVE AssignFrom_return_on_unknown(_, _, _, _)
StopOrGoOn(one, names, values, i) ==
    IF one.printed # <<>> THEN one
    ELSE AssignFrom_return_on_unknown(one.d, names, values, i + 1)

AssignFrom_return_on_unknown(d, names, values, i) ==
    IF i > Len(names) THEN [d |-> d, printed |-> <<>>]
    ELSE StopOrGoOn(AssignOne(d, names[i], values[i]), names, values, i)

RECURSIVE AssignFrom(_, _, _, _)
\* The rest of the loop after one assignment.
AssignRest(one, names, values, i) ==
    [AssignFrom(one.d, names, values, i + 1) EXCEPT !.printed = one.printed \o @]

AssignFrom(d, names, values, i) ==
    IF i > Len(names) THEN [d |-> d, printed |-> <<>>]
    ELSE AssignRest(AssignOne(d, names[i], values[i]), names, values, i)

\* The outcome of a call: r of _update_derived_param, printed of the loop.
WithPrinted(r, printed) ==
    [d |-> r.d, err |-> r.err, built |-> r.built, printed |-> printed]

\* Line 166 after the loop's result a.
DeriveAfter(a) == WithPrinted(update_derived_param(a.d), a.printed)

\* Mutant: the derived parameters are computed before the assignments.
AssignAfter(r, names, values) ==
    [d |-> AssignFrom(r.d, names, values, 1).d, err |-> r.err, built |-> r.built,
     printed |-> AssignFrom(r.d, names, values, 1).printed]

update_param_derive_first(d, names, values) ==
    AssignAfter(update_derived_param(d), names, values)

update_param(d, names, values) == DeriveAfter(AssignFrom(d, names, values, 1))


(***************************************************************************)
(* _test_prof_interpolator.  dev gives, per field, the mean fractional     *)
(* difference (in units of 1e-4 percent, like interp_error_tol) between    *)
(* the interpolated and the directly computed profiles of the random       *)
(* sample the test draws.  Result: [d, err, built].                        *)
(***************************************************************************)
RECURSIVE TestFrom(_, _, _)
\* One redshift: the exception e of the direct profiles, the lookup of the four
\* tables, the three tolerance tests, then the redshifts after it.
TestOne(d, dev, i, z, e) ==
    IF e # "none" THEN e
    ELSE IF \E x \in InterpAttrs : z \notin DOMAIN d[x] THEN "KeyError"
    ELSE IF dev["Pe"] > d["interp_error_tol"] THEN "AccuracyError"
    ELSE IF dev["rho"] > d["interp_error_tol"] THEN "AccuracyError"
    ELSE IF dev["Temp"] > d["interp_error_tol"] THEN "AccuracyError"
    ELSE TestFrom(d, dev, i + 1)

TestFrom(d, dev, i) ==
    IF i > Len(d["zs"]) THEN "none"
    ELSE TestOne(d, dev, i, d["zs"][i], ProfileRaises(d, d["zs"][i]))

\* The tests on the tables b, built or found.
TestBuilt(b, dev) ==
    IF b.err # "none" THEN b
    ELSE [d |-> b.d, err |-> TestFrom(b.d, dev, 1), built |-> b.built]

\* Mutant: the test builds the tables whatever use_interp is.
test_prof_interpolator_always(d, dev) == TestBuilt(Built(init_prof_interpolator(d)), dev)

test_prof_interpolator(d, dev) ==
    TestBuilt(IF d["use_interp"] = FALSE THEN Built(init_prof_interpolator(d))
              ELSE NotBuilt(d), dev)

(***************************************************************************)
(* get_f_bnd(M) for an array of masses: each value is                      *)
(* omega_b/omega_m * y/(1 + y), held as the two rationals pre and frac.    *)
(***************************************************************************)
MassSeq == <<10^4, 10^5, 10^6>>

get_f_bnd(d, Ms) ==
    [i \in DOMAIN Ms |->
        [pre |-> [n |-> d["omega_b"], d |-> d["omega_m"]],
         frac |-> get_f_bnd_ratio(d, Ms[i])]]

(***************************************************************************)
(* get_rho_bnd and get_norm.  The radial grid of the normalisation,        *)
(* linspace(1e-6, r_virial, 2000), is three points 0, 1, 2 in units of     *)
(* r_virial/2, and Simpson's rule has the weights 1, 4, 1 (times h/3).     *)
(* shape is the sequence of values _get_rho_bnd_wrapper returns on that    *)
(* grid.  Densities are in units of M * (omega_b/omega_m) / (4 pi h/3)     *)
(* per volume, so that the mass integral is to equal f_bnd's frac.         *)
(***************************************************************************)
RGrid == <<0, 1, 2>>

SimpsonWeights == <<1, 4, 1>>

RECURSIVE SimpsonSum(_, _)
SimpsonSum(y, i) ==
    IF i > Len(y) THEN 0 ELSE SimpsonWeights[i] * y[i] + SimpsonSum(y, i + 1)

\* scipy.integrate.simpson(4*pi*r**2*profile(r), rrange)
get_norm(shape) == SimpsonSum([i \in DOMAIN shape |-> RGrid[i] * RGrid[i] * shape[i]], 1)

get_rho_bnd(d, M, shape) ==
    LET e    == rho_bnd_wrapper_raises(d)
        fb   == get_f_bnd_ratio(d, M)
        norm == get_norm(shape)
    IN  IF e # "none" THEN [err |-> e, rho |-> <<>>, norm |-> 0]
        ELSE [err |-> "none",
              rho |-> [i \in DOMAIN shape |-> [n |-> shape[i] * fb.n, d |-> norm * fb.d]],
              norm |-> norm]

(***************************************************************************)
(* get_Temp_g at the scaled radii xs = r/r_s, in units of T_virial/1000,   *)
(* for gamma_T = 2 (the exponent 1/(gamma_T - 1) is 1).  LogShape(x) is    *)
(* ln(1 + x)/x in units of 1e-3.                                           *)
(***************************************************************************)
LogShape(x) == CASE x = 1 -> 693 [] x = 2 -> 549 [] x = 4 -> 402

get_Temp_g(d, xs) == [i \in DOMAIN xs |-> LogShape(xs[i])]

(***************************************************************************)
(* The interpolated queries.  r_bins is <<>> for None, else the list of    *)
(* radius grids the caller gives.  Result: [err, evaluated, radii, fields]:*)
(* the tables eval was called on, the radius argument of each eval, and    *)
(* the fields of the returned profiles (returned only when err = "none").  *)
(***************************************************************************)
DefaultRBins == <<1000, 3162, 10000>>

QueryRaise(kind, evaluated, radii) ==
    [err |-> kind, evaluated |-> evaluated, radii |-> radii, fields |-> <<>>]

\* One `mapping[z].eval(M, r)` followed by `*= units` (lines 238-243, 250-251,
\* 256-257), added to the result so far.
\* Mutant: a redshift that is not a key is answered from another key's table.
EvalField_other_key(d, acc, attr, z, r, field) ==
    IF acc.err # "none" THEN acc
    ELSE IF DOMAIN d[attr] = {}
    THEN QueryRaise("KeyError", acc.evaluated, acc.radii)
    ELSE QueryRaise("AttributeError",
                    acc.evaluated \cup {d[attr][IF z \in DOMAIN d[attr] THEN z
                                                ELSE CHOOSE k \in DOMAIN d[attr] : TRUE]},
                    Append(acc.radii, r))

EvalField(d, acc, attr, z, r, field) ==
    IF acc.err # "none" THEN acc
    ELSE IF z \notin DOMAIN d[attr]
    THEN QueryRaise("KeyError", acc.evaluated, acc.radii)
    ELSE IF ~HasAttr(d, attr \o "_units")
    THEN QueryRaise("AttributeError", acc.evaluated \cup {d[attr][z]}, Append(acc.radii, r))
    ELSE [err |-> "none", evaluated |-> acc.evaluated \cup {d[attr][z]},
          radii |-> Append(acc.radii, r), fields |-> Append(acc.fields, field)]

NoEval == [err |-> "none", evaluated |-> {}, radii |-> <<>>, fields |-> <<>>]

\* Mutant: no test that the mapping exists; the lookup of the missing
\* attribute is what fails.
get_Pe_profile_interpolated_noguard(d, M, z, r_bins, return_rho, return_Temp) ==
    IF ~HasAttr(d, "_Pe_prof_interpolator") THEN QueryRaise("AttributeError", {}, <<>>)
    ELSE LET rb == IF r_bins = <<>> THEN DefaultRBins ELSE r_bins
             pe == EvalField(d, NoEval, "_Pe_prof_interpolator", z, rb[1], "Pe")
             rh == IF return_rho
                   THEN EvalField(d, pe, "_rho_prof_interpolator", z, rb[2], "rho_gas")
                   ELSE pe
         IN  IF return_Temp
             THEN EvalField(d, rh, "_Temp_prof_interpolator", z, rb[3], "Temp")
             ELSE rh

get_Pe_profile_interpolated(d, M, z, r_bins, return_rho, return_Temp) ==
    IF ~HasAttr(d, "_Pe_prof_interpolator") THEN QueryRaise("NotInitialized", {}, <<>>)
    ELSE LET rb == IF r_bins = <<>> THEN DefaultRBins ELSE r_bins
             pe == EvalField(d, NoEval, "_Pe_prof_interpolator", z, rb[1], "Pe")
             rh == IF return_rho
                   THEN EvalField(d, pe, "_rho_prof_interpolator", z, rb[2], "rho_gas")
                   ELSE pe
         IN  IF return_Temp
             THEN EvalField(d, rh, "_Temp_prof_interpolator", z, rb[3], "Temp")
             ELSE rh

(***************************************************************************)
(* The direct get_Pe_profile, in the same form: every returned profile is  *)
(* evaluated at r_bins * r_virial, the whole of r_bins, and the profiles   *)
(* come back as a tuple in the order Pe, rho, Temp.                        *)
(***************************************************************************)
get_Pe_profile(d, M, z, r_bins, return_rho, return_Temp) ==
    LET rb == IF r_bins = <<>> THEN DefaultRBins ELSE r_bins
        c  == get_concentration(d, M, z)
        e  == IF c.err # "none" THEN c.err ELSE rho_bnd_wrapper_raises(d)
        fs == <<"Pe">> \o (IF return_rho THEN <<"rho_gas">> ELSE <<>>)
                      \o (IF return_Temp THEN <<"Temp">> ELSE <<>>)
    IN  IF e # "none" THEN QueryRaise(e, {}, <<>>)
        ELSE [err |-> "none", evaluated |-> {}, radii |-> [i \in DOMAIN fs |-> rb],
              fields |-> fs]

get_rho_dm_profile_interpolated(d, M, z, r_bins) ==
    IF ~HasAttr(d, "_rho_dm_prof_interpolator") THEN QueryRaise("NotInitialized", {}, <<>>)
    ELSE LET rb == IF r_bins = <<>> THEN DefaultRBins ELSE r_bins
         IN  EvalField(d, NoEval, "_rho_dm_prof_interpolator", z, rb, "rho_dm")

(***************************************************************************)
(* joint_likelihood(x, field, fitter, params, bounds, halo_mass, z,        *)
(* r_bins) of core/fitting_utils.py, d the fitter's __dict__.  Result:     *)
(* [d, err, value, updated, built, handed]; value is "-inf" or "loglike"   *)
(* when the call returns and "none" when it raises, updated tells whether  *)
(* update_param was called, handed is what the three theory names are      *)
(* bound to when likelihood is reached.                                    *)
(***************************************************************************)
\* The loop of lines 110-113: "-inf" at the first x[i] outside its bounds,
\* "pass" when there is none.
RECURSIVE BoundsLoop(_, _, _, _)
BoundsLoop(x, params, bounds, i) ==
    IF i > Len(params) THEN "pass"
    ELSE IF params[i] \notin DOMAIN bounds THEN "KeyError"
    ELSE LET lb == bounds[params[i]][1]
             ub == bounds[params[i]][2]
         IN  IF x[i] < lb \/ x[i] > ub THEN "-inf"
             ELSE BoundsLoop(x, params, bounds, i + 1)

\* Line 119: `(Pe_theory, rho_theory, Temp_theory), r = ...` unpacks the first
\* element of the returned pair.  get_Pe_profile_interpolated returns a dict
\* there, and iterating a dict yields its keys: the three names are bound to
\* the key strings, in insertion order.
Unpack(q) == q.fields

\* Lines 115-130, after the bounds loop passed.  u is the outcome of
\* update_param and q that of the query on the updated fitter; likelihood
\* reads `.value` of what it is handed, which a str does not have.
LikelihoodOf(u, q, field) ==
    IF u.err # "none"
    THEN [d |-> u.d, err |-> u.err, value |-> "none", updated |-> TRUE,
          built |-> u.built, handed |-> <<>>]
    ELSE IF q.err # "none"
    THEN [d |-> u.d, err |-> q.err, value |-> "none", updated |-> TRUE,
          built |-> u.built, handed |-> <<>>]
    ELSE IF field \in {"Pe", "rho", "Temp", "all"}
    THEN [d |-> u.d, err |-> "AttributeError", value |-> "none", updated |-> TRUE,
          built |-> u.built, handed |-> Unpack(q)]
    ELSE [d |-> u.d, err |-> "none", value |-> "loglike", updated |-> TRUE,
          built |-> u.built, handed |-> <<>>]

QueryAfter(u, field, M, z, r_bins) ==
    LikelihoodOf(u, get_Pe_profile_interpolated(u.d, M, z, r_bins, TRUE, TRUE), field)

EvaluateLikelihood(d, x, field, params, M, z, r_bins) ==
    QueryAfter(update_param(d, params, x), field, M, z, r_bins)

NotEvaluated(d, err, value) ==
    [d |-> d, err |-> err, value |-> value, updated |-> FALSE, built |-> FALSE,
     handed |-> <<>>]

\* After the bounds loop gave b: return -inf, or evaluate e.
AfterBounds(d, b, x, field, params, M, z, r_bins) ==
    IF b = "-inf" THEN NotEvaluated(d, "none", "-inf")
    ELSE IF b # "pass" THEN NotEvaluated(d, b, "none")
    ELSE EvaluateLikelihood(d, x, field, params, M, z, r_bins)

\* Mutant: the parameters are handed to the model before the bounds are looked at.
UpdateFirst(d, b, e) ==
    IF b = "-inf"
    THEN [d |-> e.d, err |-> "none", value |-> "-inf", updated |-> TRUE,
          built |-> e.built, handed |-> <<>>]
    ELSE IF b # "pass" THEN NotEvaluated(d, b, "none")
    ELSE e

joint_likelihood_update_first(d, x, field, params, bounds, M, z, r_bins) ==
    UpdateFirst(d, BoundsLoop(x, params, bounds, 1),
                EvaluateLikelihood(d, x, field, params, M, z, r_bins))

\* Mutant: an exception of the evaluation is turned into -inf.
Catching(d, b, e) ==
    IF b = "-inf" THEN NotEvaluated(d, "none", "-inf")
    ELSE IF b # "pass" THEN NotEvaluated(d, b, "none")
    ELSE IF e.err # "none" THEN [e EXCEPT !.err = "none", !.value = "-inf"]
    ELSE e

joint_likelihood_catching(d, x, field, params, bounds, M, z, r_bins) ==
    Catching(d, BoundsLoop(x, params, bounds, 1),
             EvaluateLikelihood(d, x, field, params, M, z, r_bins))

joint_likelihood(d, x, field, params, bounds, M, z, r_bins) ==
    AfterBounds(d, BoundsLoop(x, params, bounds, 1), x, field, params, M, z, r_bins)

(***************************************************************************)
(* Inputs of the exploration.                                              *)
(***************************************************************************)
\* (name, value) pairs given to update_param: one alone, or two of PairPool
\* in either order.
Assignable ==
    { <<"f_H", 7000>>, <<"mu_e", [n |-> 1, d |-> 1]>>, <<"mu_p", [n |-> 1, d |-> 1]>>,
      <<"M0", 10^5>>, <<"log10_M0", 14>>, <<"log10_M0", 13>>,
      <<"eps1_0", -(10^4)>>, <<"eps1_1", -9000>>, <<"eps2_0", -(10^4)>>,
      <<"use_interp", TRUE>>, <<"use_interp", FALSE>>,
      <<"zs", <<0, 1>> >>, <<"zs", <<1>> >>, <<"imass_conc", 2>>, <<"irho", 2>>,
      <<"sigma_intr_1", 3000>> }

PairPool ==
    { <<"f_H", 7000>>, <<"log10_M0", 14>>, <<"M0", 10^5>>, <<"use_interp", FALSE>>,
      <<"sigma_intr_1", 3000>> }

Pairs(c) == [names |-> [i \in DOMAIN c |-> c[i][1]], values |-> [i \in DOMAIN c |-> c[i][2]]]

Calls == { Pairs(<<p>>) : p \in Assignable }
           \cup { Pairs(<<p, q>>) : p \in PairPool, q \in PairPool }

\* Keyword arguments given to the constructor.
CtorKwargs ==
    { Pairs(<<>>),
      Pairs(<< <<"use_interp", TRUE>> >>),
      Pairs(<< <<"use_interp", TRUE>>, <<"zs", <<0, 1>> >> >>),
      Pairs(<< <<"mu_e", [n |-> 1, d |-> 1]>>, <<"f_H", 7000>> >>),
      Pairs(<< <<"use_interp", TRUE>>, <<"eps1_0", -(10^4)>> >>) }

Redshifts == {0, 1, 2}

\* Redshifts asked of the interpolated queries: zs holds 0, or 0 and 1.
QueryRedshifts == {0, 1}

RBinsArgs == { <<>>, <<DefaultRBins, DefaultRBins, DefaultRBins>> }

\* Values of the shape function on RGrid, and scaled radii for get_Temp_g.
Shapes == { <<3, 2, 1>>, <<4, 2, 1>> }

XGrids == { <<1, 2>>, <<2, 4>> }

\* beta: the default 0.6, 0 and -0.6.
BetaValues == {6000, 0, -6000}

Small == [rho_dm |-> 5, Pe |-> 5, rho |-> 5, Temp |-> 5]

Devs == { Small, [Small EXCEPT !.Pe = 20], [Small EXCEPT !.rho = 20],
          [Small EXCEPT !.Temp = 20], [Small EXCEPT !.rho_dm = 20] }

(***************************************************************************)
(* The state: self is the HaloProfile's __dict__, last the most recent     *)
(* call with its arguments and its outcome, ncalls the number of calls     *)
(* made since construction.  other is the __dict__ of a second HaloProfile *)
(* where a program holds two (NoInstance where it holds one); who in the   *)
(* arguments of a call names the instance it was made on, "a" for self     *)
(* and "b" for other.  data is what the program has loaded besides: the    *)
(* halo dictionary given to get_halo_data, or the particles and the ptype  *)
(* list of get_profile_for_halo; NoData where it has loaded nothing.       *)
(***************************************************************************)
NoData == [kind |-> "none"]

NoHaloData == [profile |-> <<>>, r |-> <<>>, profile_rescale |-> <<>>,
               sigma_prof |-> <<>>, sigma_lnprof |-> <<>>]

NoCollect == [particle_pos |-> [k \in {} |-> 0], mask |-> [k \in {} |-> 0],
              examined |-> {}]

NoInstance == [k \in {} |-> 0]

NoArgs == [names |-> <<>>, values |-> <<>>, M |-> 0, z |-> 0, r_bins |-> <<>>,
           return_rho |-> FALSE, return_Temp |-> FALSE, dev |-> Small,
           shape |-> <<>>, xs |-> <<>>, who |-> "a", field |-> "none",
           return_sigma |-> FALSE]

NoOut == [printed |-> <<>>, built |-> FALSE, conc |-> ConcRaise("none"),
          query |-> NoEval, fbnd |-> <<>>, rho |-> <<>>, temp |-> <<>>,
          loglike |-> "none", updated |-> FALSE, handed |-> <<>>,
          derived |-> FALSE, source |-> "none", halo_data |-> NoHaloData,
          collect |-> NoCollect]

Call(op, args, err, out) == [op |-> op, args |-> args, err |-> err, out |-> out]

\* HaloProfile(**kwargs): the defaults, then update_param(kwargs).
Construct(kw) ==
    LET r == update_param(Defaults, kw.names, kw.values)
    IN  [d |-> r.d,
         call |-> Call("__init__", [NoArgs EXCEPT !.names = kw.names, !.values = kw.values],
                       r.err, [NoOut EXCEPT !.printed = r.printed, !.built = r.built])]

Init ==
    \E kw \in CtorKwargs :
        /\ self = Construct(kw).d
        /\ last = Construct(kw).call
        /\ ncalls = 0
        /\ data = NoData
        /\ other = NoInstance

\* A constructor that raised leaves no object to call.
Alive == ~(last.op = "__init__" /\ last.err # "none")

UpdateParam ==
    /\ Alive
    /\ ncalls < MaxCalls
    /\ \E c \in Calls :
        LET r == update_param(self, c.names, c.values)
        IN  /\ self' = r.d
            /\ last' = Call("update_param",
                            [NoArgs EXCEPT !.names = c.names, !.values = c.values],
                            r.err, [NoOut EXCEPT !.printed = r.printed, !.built = r.built])
    /\ ncalls' = ncalls + 1
    /\ data' = data
    /\ other' = other

TestProfInterpolator ==
    /\ Alive
    /\ ncalls < MaxCalls
    /\ \E dev \in Devs :
        LET r == test_prof_interpolator(self, dev)
        IN  /\ self' = r.d
            /\ last' = Call("_test_prof_interpolator", [NoArgs EXCEPT !.dev = dev],
                            r.err, [NoOut EXCEPT !.built = r.built])
    /\ ncalls' = ncalls + 1
    /\ data' = data
    /\ other' = other

GetPeProfileInterpolated ==
    /\ Alive
    /\ ncalls < MaxCalls
    /\ \E z \in QueryRedshifts, rb \in RBinsArgs, all \in BOOLEAN :
        LET r == get_Pe_profile_interpolated(self, 10^5, z, rb, all, all)
        IN  last' = Call("get_Pe_profile_interpolated",
                         [NoArgs EXCEPT !.M = 10^5, !.z = z, !.r_bins = rb,
                                        !.return_rho = all, !.return_Temp = all],
                         r.err, [NoOut EXCEPT !.query = r])
    /\ self' = self
    /\ ncalls' = ncalls + 1
    /\ data' = data
    /\ other' = other

GetRhoDmProfileInterpolated ==
    /\ Alive
    /\ ncalls < MaxCalls
    /\ \E z \in QueryRedshifts :
        LET r == get_rho_dm_profile_interpolated(self, 10^5, z, <<>>)
        IN  last' = Call("get_rho_dm_profile_interpolated",
                         [NoArgs EXCEPT !.M = 10^5, !.z = z],
                         r.err, [NoOut EXCEPT !.query = r])
    /\ self' = self
    /\ ncalls' = ncalls + 1
    /\ data' = data
    /\ other' = other

GetConcentration ==
    /\ Alive
    /\ ncalls < MaxCalls
    /\ \E M \in MassGrid, z \in Redshifts :
        LET r == get_concentration(self, M, z)
        IN  last' = Call("get_concentration", [NoArgs EXCEPT !.M = M, !.z = z],
                         r.err, [NoOut EXCEPT !.conc = r])
    /\ self' = self
    /\ ncalls' = ncalls + 1
    /\ data' = data
    /\ other' = other

GetFBnd ==
    /\ Alive
    /\ ncalls < MaxCalls
    /\ last' = Call("get_f_bnd", NoArgs, "none",
                    [NoOut EXCEPT !.fbnd = get_f_bnd(self, MassSeq)])
    /\ self' = self
    /\ ncalls' = ncalls + 1
    /\ data' = data
    /\ other' = other

GetRhoBnd ==
    /\ Alive
    /\ ncalls < MaxCalls
    /\ \E M \in MassGrid, shape \in Shapes :
        LET r == get_rho_bnd(self, M, shape)
        IN  last' = Call("get_rho_bnd", [NoArgs EXCEPT !.M = M, !.shape = shape],
                         r.err, [NoOut EXCEPT !.rho = r.rho])
    /\ self' = self
    /\ ncalls' = ncalls + 1
    /\ data' = data
    /\ other' = other

GetTempG ==
    /\ Alive
    /\ ncalls < MaxCalls
    /\ \E xs \in XGrids :
        last' = Call("get_Temp_g", [NoArgs EXCEPT !.xs = xs], "none",
                     [NoOut EXCEPT !.temp = get_Temp_g(self, xs)])
    /\ self' = self
    /\ ncalls' = ncalls + 1
    /\ data' = data
    /\ other' = other

Next ==
    \/ UpdateParam
    \/ TestProfInterpolator
    \/ GetPeProfileInterpolated
    \/ GetRhoDmProfileInterpolated

Spec == Init /\ [][Next]_vars


(***************************************************************************)
(* A second specification for get_concentration as a function of the       *)
(* parameters: every HaloProfile(eps1_0=.., eps1_1=.., eps2_0=..,          *)
(* eps2_1=.., imass_conc=..) over a grid, then get_concentration calls.    *)
(***************************************************************************)
EpsValues == {-15000, -(10^4), -1065, 0}

SlopeValues == {-9000, -1073, 0, 5000}

\* HMcode_rescale_A: the default 1, the commented-out 1.2989..., 0 and -1.
RescaleValues == {10^4, 12990, 0, -(10^4)}

ConcKwargs ==
    { Pairs(<< <<"eps1_0", e10>>, <<"eps1_1", e11>>, <<"eps2_0", e20>>,
               <<"eps2_1", e21>>, <<"imass_conc", ic>> >>) :
        e10 \in EpsValues, e11 \in SlopeValues, e20 \in {-(10^4), 0},
        e21 \in {-5000, 0}, ic \in {0, 1, 2} }
    \cup
    { Pairs(<< <<"HMcode_rescale_A", A>>, <<"conc_param", cp>>, <<"eps1_0", e10>>,
               <<"imass_conc", ic>> >>) :
        A \in RescaleValues, cp \in {80000, -80000}, e10 \in {-(10^4), -1065},
        ic \in {0, 1, 2} }

InitConc ==
    \E kw \in ConcKwargs :
        /\ self = Construct(kw).d
        /\ last = Construct(kw).call
        /\ ncalls = 0
        /\ data = NoData
        /\ other = NoInstance

NextConc == GetConcentration

SpecConc == InitConc /\ [][NextConc]_vars

(***************************************************************************)
(* A third specification for the profile functions as functions of the     *)
(* parameters: every HaloProfile(beta=.., irho=.., log10_M0=..) over a     *)
(* grid, then get_f_bnd, get_rho_bnd and get_Temp_g calls.                 *)
(***************************************************************************)
ProfKwargs ==
    { Pairs(<< <<"beta", b>>, <<"irho", i>> >>) : b \in BetaValues, i \in {0, 1, 2} }
    \cup
    { Pairs(<< <<"beta", b>>, <<"irho", i>>, <<"log10_M0", v>> >>) :
        b \in BetaValues, i \in {0, 1, 2}, v \in {13, 14} }

InitProf ==
    \E kw \in ProfKwargs :
        /\ self = Construct(kw).d
        /\ last = Construct(kw).call
        /\ ncalls = 0
        /\ data = NoData
        /\ other = NoInstance

NextProf ==
    \/ GetFBnd
    \/ GetRhoBnd
    \/ GetTempG

SpecProf == InitProf /\ [][NextProf]_vars

(***************************************************************************)
(* A fourth specification: a program holding two HaloProfile instances     *)
(* and calling update_param, _test_prof_interpolator and the interpolated  *)
(* queries on either.  Every attribute, the four mappings included, is     *)
(* bound by `self.name = ...` in the __dict__ of the instance the method   *)
(* was called on (the class has no attribute of its own, and               *)
(* _init_prof_interpolator makes new dicts at each call): WriteBack.       *)
(***************************************************************************)
Instances == [a |-> self, b |-> other]

\* Mutant: the four mappings kept in one place for all instances, as class
\* attributes would be.
WriteBack_class_level(objs, who, d) ==
    [o \in DOMAIN objs |->
        IF o = who THEN d
        ELSE [x \in (DOMAIN objs[o]) \cup (InterpAttrs \cap DOMAIN d) |->
                 IF x \in InterpAttrs \cap DOMAIN d THEN d[x] ELSE objs[o][x]]]

WriteBack(objs, who, d) == [objs EXCEPT ![who] = d]

TwoKwargs == { Pairs(<<>>), Pairs(<< <<"use_interp", TRUE>> >>) }

TwoCalls ==
    { Pairs(<<p>>) : p \in { <<"f_H", 7000>>, <<"use_interp", TRUE>>,
                             <<"zs", <<0, 1>> >>, <<"eps1_0", -(10^4)>> } }

InitTwo ==
    \E ka \in TwoKwargs, kb \in TwoKwargs :
        /\ self = Construct(ka).d
        /\ other = Construct(kb).d
        /\ last = [Construct(kb).call EXCEPT !.args.who = "b"]
        /\ ncalls = 0
        /\ data = NoData

TwoUpdateParam ==
    /\ ncalls < MaxCalls
    /\ \E who \in {"a", "b"}, c \in TwoCalls :
        LET r   == update_param(Instances[who], c.names, c.values)
            new == WriteBack(Instances, who, r.d)
        IN  /\ self' = new.a
            /\ other' = new.b
            /\ last' = Call("update_param",
                            [NoArgs EXCEPT !.names = c.names, !.values = c.values,
                                           !.who = who],
                            r.err, [NoOut EXCEPT !.printed = r.printed, !.built = r.built])
    /\ ncalls' = ncalls + 1
    /\ data' = data

TwoTestProfInterpolator ==
    /\ ncalls < MaxCalls
    /\ \E who \in {"a", "b"} :
        LET r   == test_prof_interpolator(Instances[who], Small)
            new == WriteBack(Instances, who, r.d)
        IN  /\ self' = new.a
            /\ other' = new.b
            /\ last' = Call("_test_prof_interpolator", [NoArgs EXCEPT !.who = who],
                            r.err, [NoOut EXCEPT !.built = r.built])
    /\ ncalls' = ncalls + 1
    /\ data' = data

TwoGetPeProfileInterpolated ==
    /\ ncalls < MaxCalls
    /\ \E who \in {"a", "b"}, z \in QueryRedshifts :
        LET r   == get_Pe_profile_interpolated(Instances[who], 10^5, z, <<>>, TRUE, TRUE)
            new == WriteBack(Instances, who, Instances[who])
        IN  /\ self' = new.a
            /\ other' = new.b
            /\ last' = Call("get_Pe_profile_interpolated",
                            [NoArgs EXCEPT !.M = 10^5, !.z = z, !.return_rho = TRUE,
                                           !.return_Temp = TRUE, !.who = who],
                            r.err, [NoOut EXCEPT !.query = r])
    /\ ncalls' = ncalls + 1
    /\ data' = data

NextTwo ==
    \/ TwoUpdateParam
    \/ TwoTestProfInterpolator
    \/ TwoGetPeProfileInterpolated

SpecTwo == InitTwo /\ [][NextTwo]_vars

(***************************************************************************)
(* A fifth specification: the fit driver.  A sampler calls                 *)
(* joint_likelihood on the fitter with sampled parameter vectors, between  *)
(* update_param calls of the program around it.  The bounds are those of   *)
(* scripts/fit_HMCode_profile_all.py.                                      *)
(***************************************************************************)
FitBounds ==
    [f_H |-> <<6500, 8500>>, eps1_0 |-> <<-8000, 8000>>, eps2_0 |-> <<-8000, 8000>>,
     log10_M0 |-> <<10, 17>>, beta |-> <<4000, 8000>>]

\* Sampled vectors: within the bounds, the first outside, the second outside,
\* both outside.
FitSamples ==
    { [params |-> <<"f_H", "eps1_0">>, x |-> <<7000, -2000>>],
      [params |-> <<"f_H", "eps1_0">>, x |-> <<9000, -2000>>],
      [params |-> <<"f_H", "eps1_0">>, x |-> <<7000, -9000>>],
      [params |-> <<"f_H", "eps1_0">>, x |-> <<6000, 9000>>],
      [params |-> <<"log10_M0">>, x |-> <<14>>],
      [params |-> <<"log10_M0">>, x |-> <<18>>] }

JointLikelihood ==
    /\ Alive
    /\ ncalls < MaxCalls
    /\ \E s \in FitSamples, z \in QueryRedshifts :
        LET rb == <<DefaultRBins, DefaultRBins, DefaultRBins>>
            r  == joint_likelihood(self, s.x, "all", s.params, FitBounds, 10^5, z, rb)
        IN  /\ self' = r.d
            /\ last' = Call("joint_likelihood",
                            [NoArgs EXCEPT !.names = s.params, !.values = s.x,
                                           !.M = 10^5, !.z = z, !.r_bins = rb,
                                           !.return_rho = TRUE, !.return_Temp = TRUE],
                            r.err, [NoOut EXCEPT !.loglike = r.value,
                                                 !.updated = r.updated,
                                                 !.built = r.built,
                                                 !.handed = r.handed])
    /\ ncalls' = ncalls + 1
    /\ data' = data
    /\ other' = other

NextFit ==
    \/ JointLikelihood
    \/ UpdateParam

SpecFit == Init /\ [][NextFit]_vars

(***************************************************************************)
(* magneticum's Profile (magneticum/analytic_profile.py), the class the    *)
(* fit script instantiates.  self is its __dict__; the operations are      *)
(* recorded in last under the names "Profile.__init__",                    *)
(* "Profile.update_param" and "Profile.get_rho_bnd".                       *)
(***************************************************************************)
Profile_Defaults ==
    [f_H |-> 7600, gamma |-> 11770, alpha |-> 8471, M0 |-> Msun(39237), beta |-> 6000,
     HMCode_rescale_A |-> 12990, a |-> 0,
     gamma_0 |-> 5000, gamma_1 |-> -500, gamma_2 |-> 0,
     beta_0 |-> 47000, beta_1 |-> 500, beta_2 |-> 0, eta |-> 13000,
     eps1_0 |-> -1065, eps1_1 |-> -1073, eps2_0 |-> 0, eps2_1 |-> 0,
     omega_m |-> 2720, omega_b |-> 456, h |-> 7040,
     irho |-> 0, ifit |-> FALSE, zs |-> <<0>>]

\* The attributes the normalization of the bound-gas profile depends on.
Profile_NormInputs == {"gamma", "a", "irho", "eps1_0", "eps1_1", "eps2_0", "eps2_1",
                       "omega_m", "omega_b", "M0", "beta", "HMCode_rescale_A"}

\* The CubicSpline of the norms over the mass grid at one redshift.
Profile_NormSpline(d, z) == [z |-> z, from |-> [k \in Profile_NormInputs |-> d[k]]]

Profile_SetDerived(d) ==
    SetAttr(SetAttr(SetAttr(d, "H0", [val |-> d["h"] * 100, unit |-> "km/s/Mpc"]),
                    "mu_e", [n |-> 2 * 10^4, d |-> 10^4 + d["f_H"]]),
            "mu_p", [n |-> 4 * 10^4, d |-> 3 * 10^4 + 5 * d["f_H"]])

\* The loop over range(len(zs)) and the assignment of the units after it,
\* which reads this_norm, a local bound only inside the loop.
RECURSIVE Profile_FillNorm(_, _)
Profile_FillNorm(d, i) ==
    IF i > Len(d["zs"])
    THEN IF Len(d["zs"]) = 0 THEN [d |-> d, err |-> "UnboundLocalError"]
         ELSE [d |-> SetAttr(d, "_norm_interpolate_units", "Mpc3/h3"), err |-> "none"]
    ELSE Profile_FillNorm(
             SetAttr(d, "_norm_interpolate",
                     PutKey(d["_norm_interpolate"], d["zs"][i],
                            Profile_NormSpline(d, d["zs"][i]))), i + 1)

\* `if self.ifit is True:` and its body, d1 the attributes with the derived
\* parameters set.
Profile_NormIfFit(d1) ==
    IF d1["ifit"] = TRUE
    THEN Profile_FillNorm(SetAttr(d1, "_norm_interpolate", EmptyDict), 1)
    ELSE [d |-> d1, err |-> "none"]

\* Result: [d, err].
Profile_update_derived_param(d) == Profile_NormIfFit(Profile_SetDerived(d))

\* The assignment of a name found in __dict__.
Profile_AssignOne(d, name, value) ==
    IF name = "log10_M0" THEN SetAttr(d, name, Msun(Pow10(value)))
    ELSE IF name = "M0" THEN SetAttr(d, "M0", Msun(value))
    ELSE SetAttr(d, name, value)

\* The loop of update_param; returned tells that it ended at the `return`
\* of an unknown name.
RECURSIVE Profile_AssignFrom(_, _, _, _)
Profile_AssignFrom(d, names, values, i) ==
    IF i > Len(names) THEN [d |-> d, printed |-> <<>>, returned |-> FALSE]
    ELSE IF ~HasAttr(d, names[i])
    THEN [d |-> d, printed |-> <<names[i]>>, returned |-> TRUE]
    ELSE Profile_AssignFrom(Profile_AssignOne(d, names[i], values[i]), names, values, i + 1)

Profile_Outcome(r, printed, derived) ==
    [d |-> r.d, err |-> r.err, printed |-> printed, derived |-> derived]

Profile_DeriveAfter(a) ==
    IF a.returned THEN Profile_Outcome([d |-> a.d, err |-> "none"], a.printed, FALSE)
    ELSE Profile_Outcome(Profile_update_derived_param(a.d), a.printed, TRUE)

\* Result: [d, err, printed, derived]; derived tells whether
\* _update_derived_param was called.
Profile_update_param(d, names, values) ==
    Profile_DeriveAfter(Profile_AssignFrom(d, names, values, 1))

Profile_get_norm(shape) ==
    SimpsonSum([i \in DOMAIN shape |-> RGrid[i] * RGrid[i] * shape[i]], 1)

\* rho_bnd*self.get_f_bnd(M)*M / norm
Profile_Density(shape, fb, norm, source) ==
    [err |-> "none",
     rho |-> [i \in DOMAIN shape |-> [n |-> shape[i] * fb.n, d |-> norm * fb.d]],
     source |-> source]

Profile_NoDensity(err, source) == [err |-> err, rho |-> <<>>, source |-> source]

\* get_rho_bnd(M, r, r_virial, c_M, z), shape the values of the wrapper on
\* RGrid.  Result: [err, rho, source], source the origin of the norm:
\* "integration" for get_norm, "interpolator" for self._norm_interpolate.
\* With ifit False the key z_index is the array np.where(...)[0], which a
\* dict lookup cannot hash.
Profile_get_rho_bnd(d, M, z, shape) ==
    IF d["ifit"] = TRUE
    THEN Profile_Density(shape, get_f_bnd_ratio(d, M), Profile_get_norm(shape), "integration")
    ELSE IF d["ifit"] = FALSE
    THEN IF ~HasAttr(d, "_norm_interpolate")
         THEN Profile_NoDensity("AttributeError", "interpolator")
         ELSE Profile_NoDensity("TypeError", "interpolator")
    ELSE Profile_NoDensity("UnboundLocalError", "none")

\* Profile(**kwargs): the defaults, then update_param(kwargs).
Profile_Construct(kw) ==
    Profile_update_param(Profile_Defaults, kw.names, kw.values)

Profile_Assignable ==
    { <<"f_H", 7000>>, <<"h", 7000>>, <<"M0", 10^5>>, <<"log10_M0", 14>>,
      <<"ifit", TRUE>>, <<"ifit", FALSE>>, <<"zs", <<0, 1>> >>, <<"zs", <<>> >>,
      <<"use_interp", TRUE>> }

Profile_PairPool ==
    { <<"f_H", 7000>>, <<"h", 7000>>, <<"ifit", TRUE>>, <<"use_interp", TRUE>> }

Profile_Calls ==
    { Pairs(<<p>>) : p \in Profile_Assignable }
      \cup { Pairs(<<p, q>>) : p \in Profile_PairPool, q \in Profile_PairPool }

\* Keyword arguments given to Profile: none, those of the fit script
\* (use_interp=True), and the fitting mode.
Profile_Kwargs ==
    { Pairs(<<>>),
      Pairs(<< <<"use_interp", TRUE>> >>),
      Pairs(<< <<"ifit", TRUE>> >>),
      Pairs(<< <<"ifit", TRUE>>, <<"zs", <<0, 1>> >> >>),
      Pairs(<< <<"f_H", 7000>> >>) }

Profile_Call(op, kw, r) ==
    Call(op, [NoArgs EXCEPT !.names = kw.names, !.values = kw.values], r.err,
         [NoOut EXCEPT !.printed = r.printed, !.derived = r.derived])

InitProfile ==
    \E kw \in Profile_Kwargs :
        /\ self = Profile_Construct(kw).d
        /\ last = Profile_Call("Profile.__init__", kw, Profile_Construct(kw))
        /\ ncalls = 0
        /\ data = NoData
        /\ other = NoInstance

ProfileUpdated(r, c) ==
    /\ self' = r.d
    /\ last' = Profile_Call("Profile.update_param", c, r)

ProfileUpdateParam ==
    /\ ncalls < MaxCalls
    /\ \E c \in Profile_Calls : ProfileUpdated(Profile_update_param(self, c.names, c.values), c)
    /\ ncalls' = ncalls + 1
    /\ data' = data
    /\ other' = other

ProfileGotRhoBnd(r, M, z, shape) ==
    last' = Call("Profile.get_rho_bnd", [NoArgs EXCEPT !.M = M, !.z = z, !.shape = shape],
                 r.err, [NoOut EXCEPT !.rho = r.rho, !.source = r.source])

ProfileGetRhoBnd ==
    /\ ncalls < MaxCalls
    /\ \E M \in MassGrid, z \in QueryRedshifts, shape \in Shapes :
          ProfileGotRhoBnd(Profile_get_rho_bnd(self, M, z, shape), M, z, shape)
    /\ self' = self
    /\ ncalls' = ncalls + 1
    /\ data' = data
    /\ other' = other

NextProfile ==
    \/ ProfileUpdateParam
    \/ ProfileGetRhoBnd

SpecProfile == InitProfile /\ [][NextProfile]_vars

(***************************************************************************)
(* get_halo_data (core/fitting_utils.py) and read_halo_data                *)
(* (dawn/sim_toolkit/profile_handler.py).  A halo is [rvir, fields]; an    *)
(* entry of fields is the tuple <<profile, r, npart>> (Python's indices 0, *)
(* 1, 2), with the log-scatter as a fourth element where it has one.       *)
(* Profiles, radii and particle counts are whole numbers, quotients are    *)
(* the records [n, d]; particle counts are perfect squares.                *)
(* Result: [err, profile, r, profile_rescale, sigma_prof, sigma_lnprof],   *)
(* the last two <<>> when return_sigma is False.                           *)
(***************************************************************************)
Sqrt(n) == CASE n = 1 -> 1 [] n = 4 -> 2 [] n = 9 -> 3 [] n = 16 -> 4

\* halo['fields'][...][1]/halo['rvir']
Scaled(r, rvir) == [i \in DOMAIN r |-> [n |-> r[i], d |-> rvir]]

\* profile/npart**0.5
SigmaProf(profile, npart) ==
    [i \in DOMAIN profile |-> [n |-> profile[i], d |-> Sqrt(npart[i])]]

\* sigma_prof/profile
SigmaLnProf(sigma, profile) ==
    [i \in DOMAIN sigma |-> [n |-> sigma[i].n, d |-> sigma[i].d * profile[i]]]

\* nan_interp(r, profile)(1): the radii hold the node r = 1 and the profile
\* is positive there, so the cubic interpolant takes the profile's value at
\* that node.
NanInterpAtOne(r, profile) == profile[CHOOSE i \in DOMAIN r : r[i].n = r[i].d]

Rescaled(profile, v) == [i \in DOMAIN profile |-> [n |-> profile[i], d |-> v]]

\* The names bound by a branch: r, profile, npart, sigma_prof, sigma_lnprof.
Bound(r, profile, npart) ==
    [err |-> "none", bound |-> TRUE, r |-> r, profile |-> profile, npart |-> npart,
     sigma_prof |-> SigmaProf(profile, npart),
     sigma_lnprof |-> SigmaLnProf(SigmaProf(profile, npart), profile)]

Unbound == [err |-> "none", bound |-> FALSE, r |-> <<>>, profile |-> <<>>,
            npart |-> <<>>, sigma_prof |-> <<>>, sigma_lnprof |-> <<>>]

BranchRaises(kind) == [Unbound EXCEPT !.err = kind]

\* A branch that reads r, profile and npart from the one entry `name`.
FromEntry(halo, name) ==
    IF name \notin DOMAIN halo.fields THEN BranchRaises("KeyError")
    ELSE Bound(Scaled(halo.fields[name][2], halo.rvir), halo.fields[name][1],
               halo.fields[name][3])

\* Lines 56-62, the branch of field == 'Pe': r and npart from Pe_Mead,
\* sigma_lnprof read from the fourth element of the Pe entry, then profile
\* rebound to the cdm entry's profile, from which both sigmas are computed.
PeBranch(halo) ==
    IF "Pe_Mead" \notin DOMAIN halo.fields THEN BranchRaises("KeyError")
    ELSE IF "Pe" \notin DOMAIN halo.fields THEN BranchRaises("KeyError")
    ELSE IF Len(halo.fields["Pe"]) < 4 THEN BranchRaises("IndexError")
    ELSE IF "cdm" \notin DOMAIN halo.fields THEN BranchRaises("KeyError")
    ELSE Bound(Scaled(halo.fields["Pe_Mead"][2], halo.rvir), halo.fields["cdm"][1],
               halo.fields["Pe_Mead"][3])

\* Lines 49-78: `if field=='dm'`, then the separate chain
\* `if field=='Pe' / elif 'gas' / elif 'Temp' / elif 'v_disp'`.
HaloBranches(halo, field) ==
    IF field = "dm" THEN FromEntry(halo, "cdm")
    ELSE IF field = "Pe" THEN PeBranch(halo)
    ELSE IF field = "gas" THEN FromEntry(halo, "gas")
    ELSE IF field \in {"Temp", "v_disp"} THEN BranchRaises("NotImplementedError")
    ELSE Unbound

HaloRaises(kind) ==
    [err |-> kind, profile |-> <<>>, r |-> <<>>, profile_rescale |-> <<>>,
     sigma_prof |-> <<>>, sigma_lnprof |-> <<>>]

\* Lines 80-87 on the names b bound so far.
RescaleAndReturn(b, return_sigma) ==
    IF b.err # "none" THEN HaloRaises(b.err)
    ELSE IF ~b.bound THEN HaloRaises("UnboundLocalError")
    ELSE [err |-> "none", profile |-> b.profile, r |-> b.r,
          profile_rescale |-> Rescaled(b.profile, NanInterpAtOne(b.r, b.profile)),
          sigma_prof |-> IF return_sigma THEN b.sigma_prof ELSE <<>>,
          sigma_lnprof |-> IF return_sigma THEN b.sigma_lnprof ELSE <<>>]

get_halo_data(halo, field, return_sigma) ==
    RescaleAndReturn(HaloBranches(halo, field), return_sigma)

\* read_halo_data: one if/elif chain with an else that reads the entry named
\* by field; profile_rescale is [0.]*len(r).
ReadBranches(halo, field) ==
    IF field = "rho_dm" THEN FromEntry(halo, "cdm")
    ELSE IF field = "Pe" THEN FromEntry(halo, "Pe_Mead")
    ELSE IF field = "gas" THEN FromEntry(halo, "gas")
    ELSE IF field = "v_disp" THEN BranchRaises("NotImplementedError")
    ELSE FromEntry(halo, field)

ZerosAndReturn(b, return_sigma) ==
    IF b.err # "none" THEN HaloRaises(b.err)
    ELSE [err |-> "none", profile |-> b.profile, r |-> b.r,
          profile_rescale |-> [i \in DOMAIN b.r |-> 0],
          sigma_prof |-> IF return_sigma THEN b.sigma_prof ELSE <<>>,
          sigma_lnprof |-> IF return_sigma THEN b.sigma_lnprof ELSE <<>>]

read_halo_data(halo, field, return_sigma) ==
    ZerosAndReturn(ReadBranches(halo, field), return_sigma)

\* The halos of the exploration: the cdm, gas and Pe_Mead entries, with or
\* without a Pe entry holding a log-scatter.
HaloFields(c, g, pe, np, withPe) ==
    IF withPe
    THEN [cdm |-> <<c, <<1, 2, 4, 8>>, <<16, 16, 4, 4>> >>,
          gas |-> <<g, <<1, 2, 4, 8>>, np>>,
          Pe_Mead |-> <<pe, <<2, 4, 8, 16>>, np>>,
          Pe |-> <<pe, <<2, 4, 8, 16>>, np, <<1, 1, 1, 1>> >>]
    ELSE [cdm |-> <<c, <<1, 2, 4, 8>>, <<16, 16, 4, 4>> >>,
          gas |-> <<g, <<1, 2, 4, 8>>, np>>,
          Pe_Mead |-> <<pe, <<2, 4, 8, 16>>, np>>]

Halos ==
    { [kind |-> "halo", rvir |-> rv, fields |-> HaloFields(c, g, pe, np, withPe)] :
        rv \in {2, 4},
        c \in { <<8, 6, 4, 2>>, <<16, 8, 4, 2>> },
        g \in { <<6, 5, 3, 1>> },
        pe \in { <<9, 7, 5, 3>>, <<8, 6, 4, 2>> },
        np \in { <<9, 9, 4, 1>>, <<16, 16, 4, 4>> },
        withPe \in BOOLEAN }

HaloFieldArgs == {"dm", "rho_dm", "Pe", "gas", "Temp", "v_disp"}

InitHalo ==
    /\ self = NoInstance
    /\ last = Call("load", NoArgs, "none", NoOut)
    /\ ncalls = 0
    /\ other = NoInstance
    /\ data \in Halos

HaloDataCall(op, field, return_sigma, r) ==
    Call(op, [NoArgs EXCEPT !.field = field, !.return_sigma = return_sigma], r.err,
         [NoOut EXCEPT !.halo_data = [profile |-> r.profile, r |-> r.r,
                                      profile_rescale |-> r.profile_rescale,
                                      sigma_prof |-> r.sigma_prof,
                                      sigma_lnprof |-> r.sigma_lnprof]])

GetHaloData ==
    /\ ncalls < MaxCalls
    /\ \E field \in HaloFieldArgs, return_sigma \in BOOLEAN :
          last' = HaloDataCall("get_halo_data", field, return_sigma,
                               get_halo_data(data, field, return_sigma))
    /\ ncalls' = ncalls + 1
    /\ UNCHANGED <<self, other, data>>

ReadHaloData ==
    /\ ncalls < MaxCalls
    /\ \E field \in HaloFieldArgs, return_sigma \in BOOLEAN :
          last' = HaloDataCall("read_halo_data", field, return_sigma,
                               read_halo_data(data, field, return_sigma))
    /\ ncalls' = ncalls + 1
    /\ UNCHANGED <<self, other, data>>

NextHalo ==
    \/ GetHaloData
    \/ ReadHaloData

SpecHalo == InitHalo /\ [][NextHalo]_vars

(***************************************************************************)
(* get_profile_for_halo and _collect_profiles_for_halo (core/sim_tools.py).*)
(* data holds what get_profile_for_halo has before its loop over fields:   *)
(* the fields, the list ptype, for every particle type read the 'POS '     *)
(* block ([none |-> TRUE] for None, else the distances d of its particles  *)
(* from the halo center), the halo radius and the index i of the next      *)
(* field.  The list ptype is the one object handed to every call.          *)
(***************************************************************************)
Range(seq) == { seq[i] : i \in DOMAIN seq }

\* list.remove of the element at position idx (the elements are distinct).
Remove(seq, idx) == SubSeq(seq, 1, idx - 1) \o SubSeq(seq, idx + 1, Len(seq))

PutType(m, t, v) == [k \in (DOMAIN m) \cup {t} |-> IF k = t THEN v ELSE m[k]]

\* The loop `for this_ptype in ptype` (lines 223-231): the list iterator
\* holds the position idx and stops when idx passes the present length of
\* the list.  c is [ptype, particle_pos, mask, examined].
RECURSIVE CollectLoop(_, _, _, _)
CollectLoop(c, pos, rmax, idx) ==
    IF idx > Len(c.ptype) THEN c
    ELSE IF ~pos[c.ptype[idx]].none
    THEN CollectLoop([ptype |-> c.ptype,
                      particle_pos |-> PutType(c.particle_pos, c.ptype[idx],
                                               pos[c.ptype[idx]].d),
                      mask |-> PutType(c.mask, c.ptype[idx],
                                       [j \in DOMAIN pos[c.ptype[idx]].d |->
                                           pos[c.ptype[idx]].d[j] < rmax]),
                      examined |-> c.examined \cup {c.ptype[idx]}],
                     pos, rmax, idx + 1)
    ELSE CollectLoop([ptype |-> Remove(c.ptype, idx),
                      particle_pos |-> c.particle_pos, mask |-> c.mask,
                      examined |-> c.examined \cup {c.ptype[idx]}],
                     pos, rmax, idx + 1)

\* The particle type _get_field_for_halo reads for a field.
FieldPtype(field_type) == IF field_type = "cdm" THEN 1 ELSE 0

\* _get_field_for_halo and the unpacking of its result at line 236: the
\* lookup particle_pos[ptype] of the field's branch, and None for a field
\* that has no branch.
get_field_for_halo_raises(particle_pos, field_type) ==
    IF field_type \notin {"cdm", "gas", "Pe_Mead", "Temp_mass", "Temp_mean", "Temp_median"}
    THEN "TypeError"
    ELSE IF FieldPtype(field_type) \notin DOMAIN particle_pos THEN "KeyError"
    ELSE "none"

CollectOutcome(c, field_type) ==
    [ptype |-> c.ptype, particle_pos |-> c.particle_pos, mask |-> c.mask,
     examined |-> c.examined,
     err |-> get_field_for_halo_raises(c.particle_pos, field_type)]

\* Result: [ptype, particle_pos, mask, examined, err], ptype the list as the
\* call leaves it.
collect_profiles_for_halo(ptype, pos, halo_radius, field_type) ==
    CollectOutcome(CollectLoop([ptype |-> ptype, particle_pos |-> EmptyDict,
                                mask |-> EmptyDict, examined |-> {}],
                               pos, halo_radius, 1),
                   field_type)

FieldLists ==
    { <<"cdm">>, <<"gas", "cdm">>, <<"cdm", "gas">>, <<"Pe_Mead", "cdm">>,
      <<"matter", "cdm">>, <<"cdm", "matter">>, <<"gas", "matter">> }

PosBlocks == { [none |-> FALSE, d |-> <<1, 5>>], [none |-> FALSE, d |-> <<2, 3>>] }

NoPos == [none |-> TRUE, d |-> <<>>]

\* Lines 162-164.
PtypeFor(fields) == IF "matter" \in Range(fields) THEN <<0, 1, 4>> ELSE <<0, 1>>

\* The particles read for the types of ptype; line 176 computes distances
\* from the positions of type 1, which are therefore present.
ParticleData(fields) ==
    { pos \in [Range(PtypeFor(fields)) -> PosBlocks \cup {NoPos}] : ~pos[1].none }

InitCollect ==
    /\ self = NoInstance
    /\ last = Call("get_profile_for_halo", NoArgs, "none", NoOut)
    /\ ncalls = 0
    /\ other = NoInstance
    /\ \E fields \in FieldLists :
        \E pos \in ParticleData(fields) :
            data = [kind |-> "particles", fields |-> fields, ptype |-> PtypeFor(fields),
                    pos |-> pos, halo_radius |-> 4, i |-> 1]

Collected(r, field) ==
    /\ last' = Call("_collect_profiles_for_halo", [NoArgs EXCEPT !.field = field], r.err,
                    [NoOut EXCEPT !.collect = [particle_pos |-> r.particle_pos,
                                               mask |-> r.mask,
                                               examined |-> r.examined]])
    /\ data' = [data EXCEPT !.ptype = r.ptype, !.i = @ + 1]

\* One turn of the loop over fields (lines 199-201); an exception of a call
\* ends get_profile_for_halo.
CollectProfilesForHalo ==
    /\ ncalls < MaxCalls
    /\ last.err = "none"
    /\ data.i <= Len(data.fields)
    /\ Collected(collect_profiles_for_halo(data.ptype, data.pos, data.halo_radius,
                                           data.fields[data.i]),
                 data.fields[data.i])
    /\ ncalls' = ncalls + 1
    /\ UNCHANGED <<self, other>>

NextCollect == CollectProfilesForHalo

SpecCollect == InitCollect /\ [][NextCollect]_vars

(***************************************************************************)
(* Vocabulary of the properties.                                           *)
(***************************************************************************)
QueryOps == {"get_Pe_profile_interpolated", "get_rho_dm_profile_interpolated"}

\* The interpolator mappings of d, as a function on those that exist.
Mappings(d) == [x \in InterpAttrs \cap DOMAIN d |-> d[x]]

\* Every table of every mapping of d was built from d's present attributes.
TablesCurrent(d) ==
    \A x \in InterpAttrs \cap DOMAIN d :
        \A z \in DOMAIN d[x] : d[x][z].from = Snapshot(d)


(***************************************************************************)
(* C1.  Every interpolator table the interpolated queries can look up was  *)
(* built from the model's current parameter values: in every reachable     *)
(* state each table of each existing mapping holds the profiles of the     *)
(* present attributes.  (The code rebuilds only when use_interp is True,   *)
(* so tables built by _test_prof_interpolator, or left behind when         *)
(* use_interp is set to False, outlive a parameter change.)                *)
(***************************************************************************)
C1_QueryableTablesCurrent == Alive => TablesCurrent(self)

(***************************************************************************)
(* C2, as stated.  For every update_param step: made with use_interp False *)
(* and not naming use_interp, it leaves the four mappings as they were;    *)
(* made with use_interp True, it replaces every one of them.               *)
(***************************************************************************)
Replaced(d, out) ==
    /\ out.built
    /\ InterpAttrs \subseteq DOMAIN d
    /\ TablesCurrent(d)

C2_Original ==
    [][ last'.op = "update_param" =>
          /\ (self["use_interp"] = FALSE /\ "use_interp" \notin Range(last'.args.names)
                => Mappings(self') = Mappings(self) /\ ~last'.out.built)
          /\ (self["use_interp"] = TRUE => Replaced(self', last'.out)) ]_vars

(***************************************************************************)
(* C2, amended.  For every update_param step: made with use_interp False   *)
(* and not naming use_interp, it leaves the four mappings as they were;    *)
(* made with use_interp True and not itself setting use_interp to False,   *)
(* it replaces every one of them (each mapping is a new one whose tables   *)
(* are built from the updated attributes).                                 *)
(***************************************************************************)
SetsUseInterpFalse(args) ==
    \E i \in DOMAIN args.names :
        args.names[i] = "use_interp" /\ args.values[i] = FALSE

C2_RebuildOnlyIfEnabled ==
    [][ last'.op = "update_param" =>
          /\ (self["use_interp"] = FALSE /\ "use_interp" \notin Range(last'.args.names)
                => Mappings(self') = Mappings(self) /\ ~last'.out.built)
          /\ (self["use_interp"] = TRUE /\ ~SetsUseInterpFalse(last'.args)
                => Replaced(self', last'.out)) ]_vars

\* C2 witness: an update_param that did not name use_interp, found it True and
\* rebuilt all four mappings after changing f_H.
C2_Witness ==
    /\ last.op = "update_param"
    /\ last.args.names = <<"f_H">>
    /\ self["use_interp"] = TRUE
    /\ last.out.built
    /\ last.err = "none"
    /\ \A x \in InterpAttrs : DOMAIN self[x] = {0}

(***************************************************************************)
(* C3, as stated.  In every reachable state the interpolator mappings      *)
(* exist only if use_interp is True.                                       *)
(***************************************************************************)
C3_Original ==
    Alive => ((InterpAttrs \cap DOMAIN self # {}) => self["use_interp"] = TRUE)

(***************************************************************************)
(* C3, amended.  update_param, the constructor's call included, builds     *)
(* the tables only when use_interp is True once its assignments are made;  *)
(* _test_prof_interpolator builds them only when use_interp is False; no   *)
(* other step creates or changes a mapping.  (Tables that exist stay when  *)
(* use_interp is set to False.)                                            *)
(***************************************************************************)
C3_BuiltOnlyWhenEnabledOrTested ==
    /\ (last.op = "__init__" /\ Alive =>
          (last.out.built <=> self["use_interp"] = TRUE)
          /\ (InterpAttrs \cap DOMAIN self # {} <=> last.out.built))
    /\ [][ /\ (last'.op = "update_param" =>
                 (last'.out.built <=> self'["use_interp"] = TRUE))
           /\ (last'.op = "_test_prof_interpolator" =>
                 (last'.out.built <=> self["use_interp"] = FALSE))
           /\ (Mappings(self') # Mappings(self) => last'.out.built) ]_vars

\* C3 witness: _test_prof_interpolator built the tables of an object whose
\* use_interp is False.
C3_Witness ==
    /\ last.op = "_test_prof_interpolator"
    /\ last.out.built
    /\ self["use_interp"] = FALSE
    /\ InterpAttrs \subseteq DOMAIN self
    /\ last.err = "none"

(***************************************************************************)
(* C4.  An interpolated query on a HaloProfile whose mapping was never     *)
(* built raises the not-initialized error, looks up and returns no         *)
(* profile, and leaves the object as it was.                               *)
(***************************************************************************)
QueriedAttr(op) ==
    IF op = "get_Pe_profile_interpolated" THEN "_Pe_prof_interpolator"
    ELSE "_rho_dm_prof_interpolator"

C4_NotInitializedRaises ==
    [][ last'.op \in QueryOps =>
          /\ self' = self
          /\ (~HasAttr(self, QueriedAttr(last'.op)) =>
                /\ last'.err = "NotInitialized"
                /\ last'.out.query.fields = <<>>
                /\ last'.out.query.evaluated = {}) ]_vars

\* C4 witness: get_Pe_profile_interpolated was called before any build.
C4_Witness ==
    /\ last.op = "get_Pe_profile_interpolated"
    /\ InterpAttrs \cap DOMAIN self = {}
    /\ last.err = "NotInitialized"


(***************************************************************************)
(* C5, as stated.  update_param skips an unrecognized name with a          *)
(* diagnostic: the names reported are exactly the unrecognized ones, no    *)
(* attribute of such a name exists after the call unless it existed        *)
(* before, and the object and the outcome of the call are those of the     *)
(* same call without the unrecognized names, so every recognized name      *)
(* before or after it is assigned and the derived parameters are           *)
(* recomputed from the assigned values.                                    *)
(***************************************************************************)
Unrecognized(d, name) == name \notin DOMAIN d /\ name \notin {"M0", "log10_M0"}

KnownAt(d, names) == { i \in DOMAIN names : ~Unrecognized(d, names[i]) }

RECURSIVE Keep(_, _, _)
Keep(seq, idx, i) ==
    IF i > Len(seq) THEN <<>>
    ELSE (IF i \in idx THEN <<seq[i]>> ELSE <<>>) \o Keep(seq, idx, i + 1)

\* The call's effect is that of the call without its unrecognized names.
AsWithoutUnrecognized(d0, args, d1, err, out) ==
    LET known == KnownAt(d0, args.names)
        r     == update_param(d0, Keep(args.names, known, 1), Keep(args.values, known, 1))
    IN  /\ out.printed = Keep(args.names, (DOMAIN args.names) \ known, 1)
        /\ d1 = r.d
        /\ err = r.err
        /\ \A i \in known :
              (args.names[i] = "f_H" /\ \A j \in known : j > i => args.names[j] # "f_H")
                 => d1["f_H"] = args.values[i] /\ d1["mu_e"].d = 10^4 + args.values[i]

NoneCreated(d0, args, d1) ==
    \A i \in (DOMAIN args.names) \ KnownAt(d0, args.names) : args.names[i] \notin DOMAIN d1

NoneCreatedButDerived(d0, args, d1) ==
    \A i \in (DOMAIN args.names) \ KnownAt(d0, args.names) :
        IF args.names[i] \in {"mu_e", "mu_p"}
        THEN d1["mu_e"] = mu_e_of(d1) /\ d1["mu_p"] = mu_p_of(d1)
        ELSE args.names[i] \notin DOMAIN d1

C6_DerivedFollowFH ==
    (last.op \in {"__init__", "update_param"} /\ last.err = "none") =>
        /\ HasAttr(self, "mu_e") /\ HasAttr(self, "mu_p")
        /\ self["mu_e"].n = 20000 /\ self["mu_e"].d = 10000 + self["f_H"]
        /\ self["mu_p"].n = 40000 /\ self["mu_p"].d = 30000 + 5 * self["f_H"]

\* C6 witness: a call that named mu_e and mu_p themselves has returned.
C6_Witness ==
    /\ last.op = "update_param"
    /\ "mu_e" \in Range(last.args.names)
    /\ last.err = "none"
    /\ self["mu_e"].d = 10000 + self["f_H"]

(***************************************************************************)
(* C7.  update_param(['log10_M0'], [v]) leaves the object as               *)
(* update_param(['M0'], [10^v]) does: M0 is 10^v Msun/h and no attribute   *)
(* log10_M0 exists.                                                        *)
(***************************************************************************)
C7_Log10M0Shorthand ==
    [][ (last'.op = "update_param" /\ last'.args.names = <<"log10_M0">>) =>
          LET v == last'.args.values[1]
              r == update_param(self, <<"M0">>, <<10 ^ (v - 9)>>)
          IN  /\ self' = r.d
              /\ last'.err = r.err
              /\ last'.out.printed = <<>>
              /\ self'["M0"] = [val |-> 10 ^ (v - 9), unit |-> "Msun/h"]
              /\ ~HasAttr(self', "log10_M0") ]_vars

\* C7 witness: update_param(['log10_M0'], [14]) has set M0 to 1e14 Msun/h.
C7_Witness ==
    /\ last.op = "update_param"
    /\ last.args.names = <<"log10_M0">>
    /\ last.args.values = <<14>>
    /\ self["M0"] = [val |-> 100000, unit |-> "Msun/h"]
    /\ last.err = "none"


(***************************************************************************)
(* C8.  For imass_conc in {0, 1}, get_concentration(M, z) raises the       *)
(* domain error exactly when eps1_0 + eps1_1*z <= -1 or                    *)
(* eps2_0 + eps2_1*z <= -1, and otherwise returns the Duffy/Ragagnin value *)
(* times 1 + eps1 + (eps2 - eps1)*f_bnd/(omega_b/omega_m) with eps1, eps2  *)
(* as they are (no clamping).                                              *)
(***************************************************************************)
C8_DomainErrorIffEpsBelowMinusOne ==
    (last.op = "get_concentration" /\ self["imass_conc"] \in {0, 1}) =>
        LET z  == last.args.z
            e1 == self["eps1_0"] + self["eps1_1"] * z
            e2 == self["eps2_0"] + self["eps2_1"] * z
            y  == MassRatioPow(last.args.M, self["M0"].val)
            c  == last.out.conc
        IN  IF e1 <= -10000 \/ e2 <= -10000
            THEN last.err = "ValueError" /\ c.err = "ValueError"
            ELSE /\ last.err = "none"
                 /\ c.c > 0
                 /\ c.num = (10000 + e1) * (1000 + y) + (e2 - e1) * y
                 /\ c.den = 10000 * (1000 + y)
                 /\ c.num > 0

\* C8 witness: eps1(z) is above -1 and eps2(z) is not, and the call raised.
C8_Witness ==
    /\ last.op = "get_concentration"
    /\ self["imass_conc"] = 1
    /\ Eps1(self, last.args.z) > -10000
    /\ Eps2(self, last.args.z) <= -10000
    /\ last.err = "ValueError"

(***************************************************************************)
(* C9, as stated.  With eps1_0 = -1.0, get_concentration raises a domain   *)
(* error for any z >= 0.                                                   *)
(***************************************************************************)
C9_Original ==
    (last.op = "get_concentration" /\ self["eps1_0"] = -10000) =>
        last.err = "ValueError"

(***************************************************************************)
(* C9, amended.  With eps1_0 = -1.0 and imass_conc in {0, 1},              *)
(* get_concentration raises a domain error at z = 0, and at every z >= 0   *)
(* when eps1_1 <= 0 (as with the default eps1_1 = -0.1073).  With          *)
(* eps1_1 > 0 and z > 0, eps1(z) is above -1 and the call raises only if   *)
(* eps2(z) <= -1; with imass_conc = 2 it returns conc_param.               *)
(***************************************************************************)
C9_BoundaryRaises ==
    (last.op = "get_concentration" /\ self["eps1_0"] = -10000) =>
        /\ (self["imass_conc"] \in {0, 1} /\ (last.args.z = 0 \/ self["eps1_1"] <= 0)
              => last.err = "ValueError")
        /\ (self["imass_conc"] = 2 => last.err = "none")
        /\ (self["imass_conc"] \in {0, 1} /\ self["eps1_1"] * last.args.z > 0
              /\ self["eps2_0"] + self["eps2_1"] * last.args.z > -10000
              => last.err = "none")

\* C9 witness: eps1_0 = -1 exactly, z = 0, eps2 within its domain: raised.
C9_Witness ==
    /\ last.op = "get_concentration"
    /\ self["eps1_0"] = -10000
    /\ last.args.z = 0
    /\ self["eps1_1"] = 5000
    /\ Eps2(self, 0) > -10000
    /\ self["imass_conc"] = 0
    /\ last.err = "ValueError"

(***************************************************************************)
(* C10, as stated.  update_param fails with an error when a supplied       *)
(* eps1_0 or eps2_0 makes eps1(z) <= -1 or eps2(z) <= -1 (at z = 0, the    *)
(* first redshift of zs).                                                  *)
(***************************************************************************)
SuppliesBadEps(d, args) ==
    \/ "eps1_0" \in Range(args.names) /\ Eps1(d, 0) <= -10000
    \/ "eps2_0" \in Range(args.names) /\ Eps2(d, 0) <= -10000

BadAt(d, z) == Eps1(d, z) <= -10000 \/ Eps2(d, z) <= -10000

Sign(n) == IF n > 0 THEN 1 ELSE IF n < 0 THEN -1 ELSE 0

\* The sign of the value c/1000 * num/den * A/10^4 of a concentration.
ValueSign(c) == Sign(c.c) * Sign(c.num) * Sign(c.den) * Sign(c.A)

EpsInDomain(d, z) == Eps1(d, z) > -(10^4) /\ Eps2(d, z) > -(10^4)

C20_RescaledInEveryMode ==
    (last.op = "get_concentration" /\ last.err = "none") =>
        last.out.conc.A = self["HMcode_rescale_A"]

(***************************************************************************)
(* C12, as stated.  For every parameter setting, get_f_bnd(M) is           *)
(* increasing in M (f_bnd(M1) <= f_bnd(M2) for M1 < M2) and                *)
(* 0 <= f_bnd(M) < omega_b/omega_m.                                        *)
(***************************************************************************)
\* a < b, a = b for rationals with positive denominators.
Less(a, b) == a.n * b.d < b.n * a.d

Same(a, b) == a.n * b.d = b.n * a.d

FracInRange(f) == 0 <= f.frac.n /\ f.frac.n < f.frac.d /\ f.pre.n > 0 /\ f.pre.d > 0

MassIntegral(rho) ==
    [n |-> SimpsonSum([i \in DOMAIN rho |-> RGrid[i] * RGrid[i] * rho[i].n], 1),
     d |-> rho[1].d]

C13_MassConserved ==
    last.op = "get_rho_bnd" =>
        /\ last.err = "none"
        /\ LET fb   == get_f_bnd_ratio(self, last.args.M)
               norm == get_norm(last.args.shape)
               m    == MassIntegral(last.out.rho)
           IN  /\ norm > 0
               /\ \A i \in DOMAIN last.out.rho :
                     last.out.rho[i] = [n |-> last.args.shape[i] * fb.n, d |-> norm * fb.d]
               /\ m.n = norm * fb.n
               /\ m.d = norm * fb.d

(***************************************************************************)
(* C19.  get_Temp_g selects its radial shape by irho: ln(1+x)/x for irho   *)
(* in {0, 1} and 1 (temperature independent of r) for irho = 2, and        *)
(* returns T_virial * shape^(1/(gamma_T - 1)).  (HaloProfile.get_Temp_g    *)
(* does not read irho.)                                                    *)
(***************************************************************************)
C19_TempShapeByIrho ==
    last.op = "get_Temp_g" =>
        \A i \in DOMAIN last.out.temp :
            last.out.temp[i] =
                IF self["irho"] = 2 THEN 1000 ELSE LogShape(last.args.xs[i])

(***************************************************************************)
(* C14.  _test_prof_interpolator raises whenever, at some redshift of zs,  *)
(* the mean fractional deviation of a profile field (dark-matter density,  *)
(* pressure, gas density, temperature) exceeds interp_error_tol, and       *)
(* returns normally only when every field is within the tolerance.  (The   *)
(* code computes the dark-matter deviation and never compares it.)         *)
(***************************************************************************)
TestedFields == {"rho_dm", "Pe", "rho", "Temp"}

C14_RaisesIffOutOfTolerance ==
    (last.op = "_test_prof_interpolator" /\ self["zs"] # <<>>) =>
        /\ ((\E f \in TestedFields : last.args.dev[f] > self["interp_error_tol"])
              => last.err # "none")
        /\ (last.err = "none"
              => \A f \in TestedFields : last.args.dev[f] <= self["interp_error_tol"])

(***************************************************************************)
(* C15.  With the tables built, get_Pe_profile_interpolated(M, z, r_bins)  *)
(* returns, for the same arguments, the profiles of the direct             *)
(* get_Pe_profile: the same fields, each evaluated at the same radius      *)
(* fractions (the whole of r_bins), from a table of the current            *)
(* parameters.  (The code evaluates the pressure table at r_bins[0] only,  *)
(* and then multiplies by self._Pe_prof_interpolator_units, an attribute   *)
(* that is never set.)                                                     *)
(***************************************************************************)
C15_InterpolatedMatchesDirect ==
    (/\ last.op = "get_Pe_profile_interpolated"
     /\ self["use_interp"] = TRUE
     /\ HasAttr(self, "_Pe_prof_interpolator")
     /\ last.args.z \in DOMAIN self["_Pe_prof_interpolator"]) =>
        LET a      == last.args
            direct == get_Pe_profile(self, a.M, a.z, a.r_bins, a.return_rho, a.return_Temp)
        IN  direct.err = "none" =>
              /\ last.err = "none"
              /\ last.out.query.fields = direct.fields
              /\ last.out.query.radii = direct.radii
              /\ \A t \in last.out.query.evaluated : t.from = Snapshot(self)

OutsideBounds(args) ==
    \E i \in DOMAIN args.names :
        \/ args.values[i] < FitBounds[args.names[i]][1]
        \/ args.values[i] > FitBounds[args.names[i]][2]

C17_OutOfBoundsIsMinusInfinity ==
    [][ (last'.op = "joint_likelihood" /\ OutsideBounds(last'.args)) =>
          /\ last'.err = "none"
          /\ last'.out.loglike = "-inf"
          /\ ~last'.out.updated
          /\ self' = self ]_vars

\* C17 witness: the first parameter was within its bounds and the second was
\* not; -infinity was returned and f_H is still the default.
C17_Witness ==
    /\ last.op = "joint_likelihood"
    /\ last.args.names = <<"f_H", "eps1_0">>
    /\ last.args.values = <<7000, -9000>>
    /\ last.out.loglike = "-inf"
    /\ self["f_H"] = 7600
    /\ self["use_interp"] = TRUE
    /\ TablesCurrent(self)

(***************************************************************************)
(* C18.  An error raised by update_param or by                             *)
(* get_Pe_profile_interpolated during joint_likelihood propagates to the   *)
(* caller: the call ends with that error and yields no likelihood value    *)
(* (neither -infinity nor any other).                                      *)
(***************************************************************************)
C18_ErrorsPropagate ==
    [][ (last'.op = "joint_likelihood" /\ ~OutsideBounds(last'.args)) =>
          LET a == last'.args
              u == update_param(self, a.names, a.values)
              q == get_Pe_profile_interpolated(u.d, a.M, a.z, a.r_bins, TRUE, TRUE)
          IN  /\ (u.err # "none" =>
                    last'.err = u.err /\ last'.out.loglike = "none")
              /\ (u.err = "none" /\ q.err # "none" =>
                    last'.err = q.err /\ last'.out.loglike = "none")
              /\ last'.out.updated
              /\ self' = u.d ]_vars

\* C18 witness: the rebuild inside update_param raised the domain error
\* (eps1(1) <= -1 with the sampled eps1_0) and joint_likelihood ended with it.
C18_Witness ==
    /\ last.op = "joint_likelihood"
    /\ last.args.values = <<7000, -2000>>
    /\ Eps1(self, 1) <= -(10^4)
    /\ self["eps1_0"] = -2000
    /\ last.err = "ValueError"
    /\ last.out.loglike = "none"

(***************************************************************************)
(* C21.  joint_likelihood hands to likelihood the arrays that              *)
(* get_Pe_profile_interpolated computed: after a call that passed the      *)
(* bounds and left the fitter with a completed rebuild holding the asked   *)
(* redshift, the three theory names are bound to the tables' evaluations   *)
(* for Pe, rho_gas and Temp at that redshift.                              *)
(***************************************************************************)
RebuildCompleted(d) ==
    /\ \A x \in InterpAttrs : HasAttr(d, x) /\ DOMAIN d[x] = Range(d.zs)
    /\ TablesCurrent(d)

C21_ArraysHanded ==
    (/\ last.op = "joint_likelihood"
     /\ last.out.updated
     /\ RebuildCompleted(self)
     /\ last.args.z \in Range(self.zs))
    => last.out.handed = << self["_Pe_prof_interpolator"][last.args.z],
                            self["_rho_prof_interpolator"][last.args.z],
                            self["_Temp_prof_interpolator"][last.args.z] >>

(***************************************************************************)
(* C23.  After a constructor or update_param call that returns with        *)
(* use_interp True, each of the four interpolator mappings has exactly the *)
(* redshifts of the current zs as its keys.                                *)
(***************************************************************************)
C23_KeysAreCurrentZs ==
    (/\ last.op \in {"__init__", "update_param"}
     /\ last.err = "none"
     /\ self["use_interp"] = TRUE)
    => \A x \in InterpAttrs : HasAttr(self, x) /\ DOMAIN self[x] = Range(self["zs"])

\* zs was (0,) or (0, 1) with tables cached, and the call set it to (1,).
C23_Witness ==
    /\ last.op = "update_param"
    /\ last.err = "none"
    /\ last.args.names = <<"zs">>
    /\ self["zs"] = <<1>>
    /\ self["use_interp"] = TRUE
    /\ \A x \in InterpAttrs : HasAttr(self, x) /\ DOMAIN self[x] = {1}

(***************************************************************************)
(* C27.  For two distinct names that are not M0 together with log10_M0,    *)
(* update_param leaves the same state, and ends the same way, whichever    *)
(* of the two (name, value) pairs comes first.                             *)
(***************************************************************************)
Swap(seq) == <<seq[2], seq[1]>>

OrderFree(names) ==
    /\ Len(names) = 2
    /\ names[1] # names[2]
    /\ ~({"M0", "log10_M0"} \subseteq Range(names))

SameOutcome(r, d, err) == d = r.d /\ err = r.err

C27_OrderIndependent ==
    [][(last'.op = "update_param" /\ OrderFree(last'.args.names))
       => SameOutcome(update_param(self, Swap(last'.args.names), Swap(last'.args.values)),
                      self', last'.err)]_vars

\* Tables were cached; the call turned use_interp off and changed f_H.
C27_Witness ==
    /\ last.op = "update_param"
    /\ last.args.names = <<"use_interp", "f_H">>
    /\ HasAttr(self, "_Pe_prof_interpolator")
    /\ self["use_interp"] = FALSE
    /\ self["f_H"] = 7000

(***************************************************************************)
(* C28.  When update_param raises during the interpolator rebuild, the     *)
(* values it assigned and the derived parameters stay in effect, every     *)
(* table left in the mappings was built from the new parameters, and a     *)
(* get_Pe_profile_interpolated for a redshift of zs whose tables were not  *)
(* rebuilt raises KeyError without evaluating any table.                   *)
(***************************************************************************)
AssignedStay(d1, d) == \A k \in DOMAIN d1 \ InterpAttrs : k \in DOMAIN d /\ d[k] = d1[k]

MissingRaises(d, z) ==
    z \notin DOMAIN d["_Pe_prof_interpolator"]
    => /\ get_Pe_profile_interpolated(d, 10^5, z, <<>>, TRUE, TRUE).err = "KeyError"
       /\ get_Pe_profile_interpolated(d, 10^5, z, <<>>, TRUE, TRUE).evaluated = {}

C28_FailedRebuildLeavesNoStaleTable ==
    [][(last'.op = "update_param" /\ last'.out.built /\ last'.err # "none")
       => /\ AssignedStay(SetDerived(AssignFrom(self, last'.args.names,
                                                 last'.args.values, 1).d), self')
          /\ TablesCurrent(self')
          /\ \E z \in Range(self'["zs"]) : z \notin DOMAIN self'["_Pe_prof_interpolator"]
          /\ \A z \in Range(self'["zs"]) : MissingRaises(self', z)]_vars

\* The rebuild finished redshift 0 and raised at redshift 1.
C28_Witness ==
    /\ last.op = "update_param"
    /\ last.out.built
    /\ last.err = "ValueError"
    /\ last.args.names = <<"eps1_1">>
    /\ self["eps1_1"] = -9000
    /\ self["zs"] = <<0, 1>>
    /\ DOMAIN self["_Pe_prof_interpolator"] = {0}

(***************************************************************************)
(* C29.  An interpolated query for a redshift that is not a key of its     *)
(* mapping raises KeyError, evaluates no table and leaves the instance as  *)
(* it was; no query evaluates the table of a redshift other than the one   *)
(* asked.                                                                  *)
(***************************************************************************)
MappingOf(op) ==
    IF op = "get_Pe_profile_interpolated" THEN "_Pe_prof_interpolator"
    ELSE "_rho_dm_prof_interpolator"

C29_UncachedRedshiftRaises ==
    [][(last'.op \in QueryOps /\ HasAttr(self, MappingOf(last'.op)))
       => /\ \A t \in last'.out.query.evaluated : t.z = last'.args.z
          /\ self' = self
          /\ last'.args.z \notin DOMAIN self[MappingOf(last'.op)]
             => last'.err = "KeyError" /\ last'.out.query.evaluated = {}]_vars

\* Tables are cached for redshift 0 alone and redshift 1 was asked.
C29_Witness ==
    /\ last.op \in QueryOps
    /\ last.args.z = 1
    /\ last.err = "KeyError"
    /\ DOMAIN self[MappingOf(last.op)] = {0}

(***************************************************************************)
(* C24.  With irho = 2 the bound-gas density is consistent: the wrapper    *)
(* reads only attributes the instance has, and get_rho_bnd returns a       *)
(* density with a finite positive value at every radius.                   *)
(***************************************************************************)
Finite(q) == q.d # 0

C24_Irho2Consistent ==
    (last.op = "get_rho_bnd" /\ self["irho"] = 2)
    => /\ WrapperReads(self) \subseteq DOMAIN self
       /\ last.err = "none"
       /\ Len(last.out.rho) = Len(last.args.shape)
       /\ \A i \in DOMAIN last.out.rho : Finite(last.out.rho[i])

(***************************************************************************)
(* C25.  magneticum's Profile.get_rho_bnd takes the norm from the          *)
(* precomputed interpolator exactly when ifit is True, where the           *)
(* interpolator was built, integrates directly when ifit is False, and     *)
(* returns a density in both modes.                                        *)
(***************************************************************************)
C25_InterpolatorOnlyWhenFitting ==
    last.op = "Profile.get_rho_bnd"
    => /\ last.out.source = "interpolator" <=> self["ifit"] = TRUE
       /\ last.out.source = "integration" <=> self["ifit"] = FALSE
       /\ last.out.source = "interpolator" => HasAttr(self, "_norm_interpolate")
       /\ last.err = "none"

(***************************************************************************)
(* C26.  magneticum's Profile.update_param skips an unknown name: every    *)
(* name of the call found in __dict__ has the value given last for it      *)
(* after the call, and mu_e, mu_p and H0 are those of the f_H and h in     *)
(* effect after the call.                                                  *)
(***************************************************************************)
Given(name, value) == IF name = "M0" THEN Msun(value) ELSE value

LastGiven(names, i) == \A j \in DOMAIN names : j > i => names[j] # names[i]

DerivedCurrent(d) ==
    /\ {"mu_e", "mu_p", "H0"} \subseteq DOMAIN d
    /\ d = Profile_SetDerived(d)

C26_UnknownNameSkipped ==
    [][last'.op = "Profile.update_param"
       => /\ \A i \in DOMAIN last'.args.names :
               (HasAttr(self, last'.args.names[i]) /\ LastGiven(last'.args.names, i))
               => self'[last'.args.names[i]]
                      = Given(last'.args.names[i], last'.args.values[i])
          /\ DerivedCurrent(self')]_vars

(***************************************************************************)
(* C22.  get_halo_data returns the data of the requested field: for 'Pe'   *)
(* the profile, the radius bins and the particle counts behind the         *)
(* uncertainties are those of the Pe_Mead entry, for 'dm' those of the cdm *)
(* entry and for 'gas' those of the gas entry, with                        *)
(* sigma = profile/sqrt(Npart) of that same profile.                       *)
(***************************************************************************)
EntryOf(field) ==
    CASE field = "Pe" -> "Pe_Mead" [] field = "dm" -> "cdm" [] field = "gas" -> "gas"

DataOfEntry(out, return_sigma, halo, name) ==
    /\ out.profile = halo.fields[name][1]
    /\ out.r = Scaled(halo.fields[name][2], halo.rvir)
    /\ return_sigma
       => out.sigma_prof = SigmaProf(halo.fields[name][1], halo.fields[name][3])

C22_RequestedFieldReturned ==
    (last.op = "get_halo_data" /\ last.args.field \in {"Pe", "dm", "gas"})
    => /\ last.err = "none"
       /\ DataOfEntry(last.out.halo_data, last.args.return_sigma, data,
                      EntryOf(last.args.field))

(***************************************************************************)
(* C30.  When the loop over ptype of _collect_profiles_for_halo has        *)
(* finished, every particle type still in the list was examined and has an *)
(* entry in particle_pos and in mask, and no type whose 'POS ' is None is  *)
(* left in the list.                                                       *)
(***************************************************************************)
C30_ListAndEntriesAgree ==
    last.op = "_collect_profiles_for_halo"
    => /\ \A t \in Range(data.ptype) :
             /\ t \in last.out.collect.examined
             /\ t \in DOMAIN last.out.collect.particle_pos
             /\ t \in DOMAIN last.out.collect.mask
       /\ \A t \in DOMAIN data.pos : data.pos[t].none => t \notin Range(data.ptype)

=============================================================================
